---- MODULE Spec2Model ----
(***************************************************************************)
(* Model of gtsa's dependency discovery and allowlist-adjustment pipeline: *)
(* the CLI action, adjustTokenScope / adjustTokenScopeForAllProjects,      *)
(* TokenScopeAdjuster.adjustProject / adjustAllProjects,                   *)
(* DependencyScanner.scan, processAllDependencyFiles, processDependencies  *)
(* and the GitLab job-token allowlist they read and write.                 *)
(*                                                                         *)
(* The program is single-threaded; every await on a GitLab call is a step  *)
(* of the model, and what GitLab answers (success, 404, another error, the *)
(* content of a manifest) is chosen nondeterministically at that step.     *)
(***************************************************************************)
EXTENDS Integers, Sequences, FiniteSets, TLC

\* ------------------------------------------------------------------ bounds
MaxProjects == 2
MaxList == 2
MaxFiles == 2
MaxRuns == 2
MaxDeps == 6
MaxRefs == 3
MaxRetries == 2
MaxPages == 2
MaxCalls == 3

\* ------------------------------------------------------- program constants
\* a listed project without an id: `!project?.id` is true for undefined and 0
NoId == 0
\* the default width of the dependency worker pool the documentation names
DefaultConcurrency == 5
\* DEFAULT_MAX_RETRIES
DefaultMaxRetries == 2
\* isRetryable: the status 429, and the lowest status of a server error
TooManyRequests == 429
ServerErrorFloor == 500

\* ------------------------------------------------------------ environment
\* ids of the projects the token can list (the source projects)
ProjectIds == 1..MaxProjects
\* id of a project that is only ever a dependency
LibId == MaxProjects + 1
AllIds == 1..LibId
\* dependency paths a manifest can name: the first listed project and a library
Paths == {"g/p1", "g/lib"}

\* what GET projects/<encoded path> answers with: the id of that project
ProjectIdOf(path) == IF path = "g/p1" THEN 1 ELSE LibId

\* what extracting one manifest can deliver
FileDeps == {<<>>, <<"g/p1">>, <<"g/lib">>}

SeqsUpTo(S, n) == UNION {[1..k -> S] : k \in 0..n}

\* getAllProjects: a page-ordered listing; real ids are unique in it
ProjectLists ==
  {l \in SeqsUpTo(ProjectIds \cup {NoId}, MaxList) :
     \A i, j \in 1..Len(l) : (i # j /\ l[i] # NoId) => l[i] # l[j]}

\* GitLab always lists a project on its own job-token allowlist; before the
\* run either nothing else is granted, or project 1 is on the library's
\* allowlist and project 2 on project 1's (so a project can meet a dependency
\* that is granted already next to one that is not)
AllowlistInits ==
  {[d \in AllIds |-> {d} \cup {p[2] : p \in {q \in pre : q[1] = d}}] :
     pre \in {{}, {<<LibId, 1>>, <<1, 2>>}}}

SeqToSet(s) == {s[i] : i \in 1..Len(s)}

\* the environment variables NewClientConfig reads
Credentials == {"GITLAB_URL", "GITLAB_TOKEN"}

\* ------------------------------------------------------------------ state
VARIABLES
  mode,          \* "single" (--project-id) or "all" (--all)
  dryRun,        \* --dry-run
  reportPath,    \* TRUE when a DryRunReporter is constructed
  env,           \* the environment variables that are set
  projects,      \* the listing of getAllProjects, or <<projectId>> in single mode
  allowlist,     \* GitLab: project id -> ids on its job-token allowlist
  run,           \* number of the CLI invocation
  pc,            \* where the invocation is
  idx,           \* position of the for-loop over projects
  status,        \* LoggerService state: project id -> status
  collectedEntries, \* adjustAllProjects: collectedEntries
  failures,      \* adjustAllProjects: failures (project ids, in push order)
  dependencyFiles,  \* scan: number of manifest files found
  fileIdx,       \* processAllDependencyFiles: loop position
  allDependencies,  \* processAllDependencyFiles: allDependencies
  fileErrors,    \* processAllDependencyFiles: fileErrors, [file, cause]
  dependencies,  \* processDependencies: its dependencies argument
  depIdx,        \* processDependencies: loop position
  dependencyProjectId, \* processDependencies: result of getProjectId
  depFailures,   \* processDependencies: failures (dependency paths)
  recon,         \* processDependencies: "idle", "running", "returned", "threw"
  depError,      \* failures lists of the DependencyProcessingErrors raised
  reporter,      \* DryRunReporter: [ready, entries, file]
  exitCode,      \* -1 while running, else the process exit status
  cliError,      \* the error that reached the CLI's catch, or "none"
  aggErrors,     \* failures lists of the AdjustAllProjectsErrors thrown
  \* history of the run, for stating properties
  attempted,     \* ids adjustProject was called with, in call order
  threw,         \* ids whose adjustProject call threw, in order
  notFound,      \* ids whose metadata or tree request answered 404
  fetchFailed,   \* ids whose metadata or tree request failed otherwise
  fileFailed,    \* ids with a file that failed to process
  depFailed,     \* ids with a dependency that failed to process
  depOutcome,    \* per dependency of this processDependencies: its outcome
  checkedList,   \* id of the allowlist isProjectWhitelisted last read, or 0
  writes,        \* allow-writes this project issued: [src, path, listed, ok]
  pdCalls,       \* number of processDependencies calls
  delivered,     \* the dependencies this project's scan handed to adjustProject
  found,         \* ids whose scan returned at least one dependency, in order
  reconciled,    \* <<source, path>> of the reconciliations that fully succeeded
  granted,       \* the same pairs, of the earlier runs
  skipWarnings,  \* number of 'project without an ID' warnings logged
  \* one extractDependencies call of one processor instance
  processor,     \* basename the processor was created for, or "none"
  fileContent,   \* [form, items]: the text handed to extractDependencies
  xpc,           \* "idle", "parse", "walk", "lookup", "returned", "threw"
  stack,         \* NpmProcessor: stack of dependency maps (ids of their owners)
  current,       \* the entries being iterated (indexes into fileContent)
  pos,           \* position in current
  isRequireBlock,   \* GoModProcessor: isRequireBlock
  extracted,     \* the dependencies array, or set in insertion order
  projectCache,  \* ComposerLockProcessor: projectCache
  unsupportedReferences, \* unsupportedReferences / unsupportedEndpoints
  log,           \* what the call handed to the logger
  lookups,       \* ids getProject was requested for, in order
  visited,       \* indexes of the entries the call has processed, in order
  \* one getAllProjects or findDependencyFiles call of a GitlabClient
  api,           \* "getAllProjects", "findDependencyFiles" or "none"
  maxRetries,    \* GitlabClient: maxRetries
  pageLimitOption,  \* getAllProjects: options.pageLimit
  cpc,           \* "idle", "call", "attempt", "delay", "returned", "threw"
  page,          \* page
  hasNextPage,   \* hasNextPage
  fetchedPages,  \* fetchedPages
  attempt,       \* executeRequest: attempt
  apiError,      \* executeRequest: apiError of the attempt that failed last
  collected,     \* projects / files: <<page, row>> of the rows pushed
  requested,     \* the pages executeRequest was called for, in order
  answers,       \* the responses received, in order: [data, header]
  \* one DryRunReporter and the calls made on it
  calls,         \* "initialize" / "append": the calls made, in order
  writeLog,      \* the writeYamlReport calls: [by, ready, entries, ok]
  document,      \* the report file: the lines last written to it
  queue,         \* writeQueue: the tasks enqueued and not yet started
  active,        \* the tasks that have started and not ended, at their write
  started,       \* the writeYamlReport calls begun: [call, write, entries]
  \* the path of the project filters from the command line to the listing
  projectQuery,  \* what buildProjectQuery returned: filters, or Undefined
  adjusterOptions,  \* the options adjustAllProjects was called with
  listingArgument,  \* the filters getAllProjects was called with
  qpc,           \* "cli", "adjuster", "listing", "listed"
  \* two processDependencies calls on the same dependencies in two orders
  remote,        \* dependency path -> the request GitLab rejects for it, or "ok"
  before,        \* the allowlists before either call
  submitted,     \* the dependencies in the order of the first call
  processed,     \* the same dependencies in the order of the second call
  outcomes       \* order -> [allowlist, failures, threw] of the call made

progVars == <<pc, idx, status, collectedEntries, failures, dependencyFiles,
              fileIdx, allDependencies, fileErrors, dependencies, depIdx,
              dependencyProjectId, depFailures, recon, depError, reporter,
              exitCode, cliError, aggErrors>>
histVars == <<attempted, threw, notFound, fetchFailed, fileFailed, depFailed,
              depOutcome,
              checkedList, writes, pdCalls, delivered, found, reconciled,
              granted, skipWarnings>>
extractVars == <<processor, fileContent, xpc, stack, current, pos,
                 isRequireBlock, extracted, projectCache,
                 unsupportedReferences, log, lookups, visited>>
pipelineVars == <<mode, dryRun, reportPath, env, projects, allowlist, run,
                  progVars, histVars>>
clientVars == <<api, maxRetries, pageLimitOption, cpc, page, hasNextPage,
                fetchedPages, attempt, apiError, collected, requested,
                answers>>
reporterVars == <<calls, writeLog, document, queue, active, started>>
listingVars == <<projectQuery, adjusterOptions, listingArgument, qpc>>
orderVars == <<remote, before, submitted, processed, outcomes>>
vars == <<pipelineVars, extractVars, clientVars, reporterVars, listingVars,
          orderVars>>

\* what the steps of one part of the program leave alone
outsidePipeline == <<extractVars, clientVars, reporterVars, listingVars,
                     orderVars>>
outsideExtract == <<pipelineVars, clientVars, reporterVars, listingVars,
                    orderVars>>
outsideClient == <<pipelineVars, extractVars, reporterVars, listingVars,
                   orderVars>>

config == <<mode, dryRun, reportPath, projects>>

\* the project adjustProject is working on
cur == projects[idx]

\* the project adjustProject was last called with
lastProject == attempted[Len(attempted)]

NewReporter == [ready |-> FALSE, entries |-> <<>>, file |-> <<>>]

\* no processor instance exists
ExtractIdle ==
  /\ processor = "none"
  /\ fileContent = [form |-> "none", items |-> <<>>]
  /\ xpc = "idle"
  /\ stack = <<>> /\ current = <<>> /\ pos = 1
  /\ isRequireBlock = FALSE
  /\ extracted = <<>>
  /\ projectCache = <<>>
  /\ unsupportedReferences = {}
  /\ log = <<>> /\ lookups = <<>> /\ visited = <<>>

\* an optional number: <<>> is undefined, <<n>> the number n
Undefined == <<>>

\* no attempt of the current request has failed
NoError == [name |-> "none", statusCode |-> 0, code |-> "none",
            retryable |-> FALSE]

\* no client call is under way
ClientIdle ==
  /\ api = "none"
  /\ maxRetries = DefaultMaxRetries
  /\ pageLimitOption = Undefined
  /\ cpc = "idle"
  /\ page = 1 /\ hasNextPage = TRUE /\ fetchedPages = 0
  /\ attempt = 0 /\ apiError = NoError
  /\ collected = <<>> /\ requested = <<>> /\ answers = <<>>

\* no reporter is driven on its own
ReporterIdle ==
  /\ calls = <<>> /\ writeLog = <<>> /\ document = <<>>
  /\ queue = <<>> /\ active = {} /\ started = <<>>

\* no command line with project filters is followed
ListingIdle ==
  /\ projectQuery = Undefined
  /\ adjusterOptions = Undefined
  /\ listingArgument = Undefined
  /\ qpc = "idle"

\* no comparison of two processing orders is made
OrderIdle ==
  /\ remote = <<>> /\ before = <<>>
  /\ submitted = <<>> /\ processed = <<>> /\ outcomes = <<>>

\* state of a fresh process
Fresh ==
  /\ pc = "cli"
  /\ idx = 1
  /\ status = [p \in ProjectIds |-> "pending"]
  /\ collectedEntries = <<>>
  /\ failures = <<>>
  /\ dependencyFiles = 0
  /\ fileIdx = 1
  /\ allDependencies = <<>>
  /\ fileErrors = <<>>
  /\ dependencies = <<>>
  /\ depIdx = 1
  /\ dependencyProjectId = 0
  /\ depFailures = <<>>
  /\ recon = "idle"
  /\ depError = <<>>
  /\ reporter = NewReporter
  /\ exitCode = -1
  /\ cliError = "none"
  /\ aggErrors = <<>>
  /\ attempted = <<>>
  /\ threw = <<>>
  /\ notFound = {}
  /\ fetchFailed = {}
  /\ fileFailed = {}
  /\ depFailed = {}
  /\ depOutcome = <<>>
  /\ checkedList = 0
  /\ writes = <<>>
  /\ pdCalls = 0
  /\ delivered = <<>>
  /\ found = <<>>
  /\ reconciled = {}
  /\ skipWarnings = 0

Init ==
  /\ mode \in {"single", "all"}
  /\ dryRun \in BOOLEAN
  /\ reportPath \in BOOLEAN
  /\ reportPath => (dryRun /\ mode = "all")
  /\ env \in SUBSET Credentials
  /\ projects \in IF mode = "all" THEN ProjectLists
                                  ELSE {<<p>> : p \in ProjectIds}
  /\ allowlist \in AllowlistInits
  /\ run = 1
  /\ granted = {}
  /\ Fresh
  /\ ExtractIdle
  /\ ClientIdle
  /\ ReporterIdle
  /\ OrderIdle
  /\ ListingIdle

\* the command has not been started
PipelineIdle ==
  /\ mode = "single" /\ dryRun = FALSE /\ reportPath = FALSE
  /\ env = Credentials
  /\ projects = <<1>>
  /\ allowlist = [d \in AllIds |-> {d}]
  /\ run = 1 /\ granted = {}
  /\ Fresh

\* ------------------------------------------------------------ GitlabClient
\* isProjectWhitelisted(sourceProjectId, depProjectId): reads the allowlist of
\* depProjectId and looks for sourceProjectId in it
IsProjectWhitelisted(al, sourceProjectId, depProjectId) ==
  sourceProjectId \in al[depProjectId]

\* variant: the request replaces the allowlist instead of adding to it
AllowCiJobTokenAccessReplacing(al, sourceProjectId, targetProjectId) ==
  [al EXCEPT ![sourceProjectId] = {targetProjectId}]

\* allowCiJobTokenAccess(sourceProjectId, targetProjectId):
\* POST projects/<sourceProjectId>/job_token_scope/allowlist {target_project_id}
AllowCiJobTokenAccess(al, sourceProjectId, targetProjectId) ==
  [al EXCEPT ![sourceProjectId] = @ \cup {targetProjectId}]

\* ------------------------------------------------------------ configuration
\* variant: only the URL is validated
ConfigErrorsOfUrlOnly(e) == {"GITLAB_URL"} \ e

\* NewClientConfig: the properties validateSync reports, one for each variable
\* that is not defined; it throws when there is any
ConfigErrors(e) == Credentials \ e

\* ----------------------------------------------------------- LoggerService
startProject(st, p) == [st EXCEPT ![p] = "in-progress"]
completeProject(st, p) == [st EXCEPT ![p] = "success"]
failProject(st, p) == [st EXCEPT ![p] = "failure"]

\* ---------------------------------------------------------- DryRunReporter
\* tryInitialize: writeYamlReport([], path) truncates the report
tryInitialize(r, ok) ==
  IF ok THEN [r EXCEPT !.ready = TRUE, !.file = <<>>]
        ELSE [r EXCEPT !.ready = FALSE]

\* append: push the entry, initialise when not ready, rewrite the whole report
ReporterAppend(r, entry, initOk, writeOk) ==
  LET r1 == [r EXCEPT !.entries = Append(@, entry)]
      r2 == IF ~r1.ready THEN tryInitialize(r1, initOk) ELSE r1
  IN  IF ~r2.ready THEN r2
      ELSE IF writeOk THEN [r2 EXCEPT !.file = r2.entries]
      ELSE [r2 EXCEPT !.ready = FALSE]

\* variant: a write that fails makes the call reject
ReporterSettlesRejecting(ok) == IF ok THEN "resolved" ELSE "rejected"

\* initialize / append: tryInitialize and the try around the update catch
\* whatever writeYamlReport rejects with, so the call resolves
ReporterSettles(ok) == "resolved"

\* ------------------------------------------------------ decisions of the code
\* variant: a 404 is rethrown like any other error
FetchOutcomeRethrowing404(answer) ==
  IF answer = "ok" THEN "value" ELSE "throw"

\* variant: every error of the request is swallowed
FetchOutcomeSwallowingAll(answer) ==
  IF answer = "ok" THEN "value" ELSE "empty"

\* fetchProjectDetails / fetchDependencyFiles: what becomes of a GitLab answer
\* ("ok", "notFound" = GitlabApiError with statusCode 404, "error" = any other)
FetchOutcome(answer) ==
  CASE answer = "ok" -> "value"
    [] answer = "notFound" -> "empty"
    [] OTHER -> "throw"

\* processAllDependencyFiles: throws when any file failed, else returns the list
FilesThrow(errs) == Len(errs) > 0

\* variant: the dry-run test is missing
AdjustBranchIgnoringDryRun(deps, dry) ==
  IF Len(deps) = 0 THEN "none" ELSE "reconcile"

\* adjustProject after the scan: "none" (no dependencies), "report" (dry run)
\* or "reconcile" (processDependencies)
AdjustBranch(deps, dry) ==
  IF Len(deps) = 0 THEN "none"
  ELSE IF dry THEN "report"
  ELSE "reconcile"

\* variant: the answer of the check is ignored
NeedsWriteAlways(whitelisted) == TRUE

\* processDependencies: the write is issued when the check answers false
NeedsWrite(whitelisted) == ~whitelisted

\* variant: the two ids are passed in the other order
GrantAccessSwapped(al, depProjectId, sourceProjectId) ==
  AllowCiJobTokenAccess(al, sourceProjectId, depProjectId)

\* processDependencies: the call it issues, allowCiJobTokenAccess(
\*   dependencyProjectId.toString(), sourceProjectId.toString())
GrantAccess(al, depProjectId, sourceProjectId) ==
  AllowCiJobTokenAccess(al, depProjectId, sourceProjectId)

\* variant: the first failure ends the loop
NextDepAfterFailureAborting(i, n) == n + 1

\* processDependencies: the catch pushes the failure and the loop goes on
NextDepAfterFailure(i, n) == i + 1

\* variant: the tasks of all remaining dependencies are started together
InFlightAllAtOnce(i, n) == i..n

\* processDependencies: the turns of `for (const dependency of dependencies)`
\* whose try block has begun and not ended, with the loop at turn i of n; every
\* request of a turn is awaited before the loop goes on
InFlight(i, n) == IF i <= n THEN {i} ELSE {}

\* processDependencies: throws the aggregated error when failures were pushed
DepsThrow(fs) == Len(fs) > 0

\* variant: the first failed project ends the loop
NextProjectAfterFailureAborting(i, n) == n + 1

\* adjustAllProjects: the catch pushes the failure and the loop goes on
NextProjectAfterFailure(i, n) == i + 1

\* adjustAllProjects: throws AdjustAllProjectsError when failures were pushed
AllThrow(fs) == Len(fs) > 0

\* variant: the catch logs the error and lets the process end normally
ExitStatusWithoutExit(caught) == 0

\* cli action: process.exit(1) in the catch, else the process ends normally
ExitStatus(caught) == IF caught THEN 1 ELSE 0

\* variant: the entry is put in front of the collected ones
CollectEntryInFront(entries, entry) ==
  IF entry # <<>> THEN entry \o entries ELSE entries

\* adjustAllProjects: `if (entry) collectedEntries.push(entry)`
CollectEntry(entries, entry) ==
  IF entry # <<>> THEN Append(entries, entry[1]) ELSE entries

\* --------------------------------------------- return to adjustProject's caller
callerVars == <<pc, idx, status, collectedEntries, failures, reporter,
                exitCode, cliError, threw>>

\* adjustProject returned (entry = <<>> stands for null) with logger state st
Returned(st, entry) ==
  /\ threw' = threw
  /\ cliError' = cliError
  /\ IF mode = "all"
       THEN /\ collectedEntries' = CollectEntry(collectedEntries, entry)
            /\ IF entry # <<>> /\ dryRun /\ reportPath
                 THEN \E initOk, writeOk \in BOOLEAN :
                        /\ reporter' = ReporterAppend(reporter, entry[1],
                                                      initOk, writeOk)
                        /\ IF ReporterSettles(reporter'.ready) = "resolved"
                             THEN status' = st /\ failures' = failures
                             ELSE \* catch of adjustAllProjects
                                  /\ status' = failProject(st, cur)
                                  /\ failures' = Append(failures, cur)
                 ELSE /\ reporter' = reporter
                      /\ status' = st /\ failures' = failures
            /\ idx' = idx + 1
            /\ pc' = "next"
            /\ exitCode' = exitCode
       ELSE \* adjustTokenScope resolves; the cli logs and stops the logger
            /\ status' = st /\ failures' = failures
            /\ collectedEntries' = collectedEntries
            /\ reporter' = reporter
            /\ idx' = idx
            /\ pc' = "done"
            /\ exitCode' = ExitStatus(FALSE)

\* adjustProject threw an error of the given kind
Threw(kind) ==
  /\ threw' = Append(threw, cur)
  /\ collectedEntries' = collectedEntries
  /\ reporter' = reporter
  /\ IF mode = "all"
       THEN \* catch of adjustAllProjects
            /\ status' = failProject(status, cur)
            /\ failures' = Append(failures, cur)
            /\ idx' = NextProjectAfterFailure(idx, Len(projects))
            /\ pc' = "next"
            /\ exitCode' = exitCode
            /\ cliError' = cliError
       ELSE \* adjustTokenScope rejects; catch of the cli action
            /\ status' = status
            /\ failures' = failures
            /\ idx' = idx
            /\ pc' = "done"
            /\ exitCode' = ExitStatus(TRUE)
            /\ cliError' = kind

\* ----------------------------------------------------------------- actions
cfgVars == <<mode, dryRun, reportPath, env, projects, run, granted>>
fileVars == <<dependencyFiles, fileIdx, allDependencies, fileErrors>>
depVars == <<dependencies, depIdx, dependencyProjectId, depFailures, recon, depError>>
scanHist == <<notFound, fetchFailed, fileFailed, delivered, found>>
depHist == <<depOutcome, checkedList, writes, pdCalls, reconciled, depFailed>>

\* cli action, either mode: getGitlabClient throws the configuration error of
\* NewClientConfig, the catch of the cli exits
ConfigFails ==
  /\ pc = "cli"
  /\ ConfigErrors(env) # {}
  /\ pc' = "done"
  /\ cliError' = "ConfigurationError"
  /\ exitCode' = ExitStatus(TRUE)
  /\ UNCHANGED <<outsidePipeline, skipWarnings>>
  /\ UNCHANGED <<cfgVars, allowlist, idx, status, collectedEntries, failures,
                 fileVars, depVars, reporter, aggErrors, attempted, threw,
                 scanHist, depHist>>

\* cli action with --all: adjustTokenScopeForAllProjects, adjustAllProjects up
\* to the for-loop (getAllProjects answered with `projects`)
StartAll ==
  /\ pc = "cli" /\ mode = "all"
  /\ ConfigErrors(env) = {}
  /\ IF Len(projects) = 0
       THEN /\ pc' = "done"
            /\ exitCode' = ExitStatus(FALSE)
            /\ UNCHANGED <<reporter, cliError>>
       ELSE IF dryRun /\ reportPath
       THEN \E ok \in BOOLEAN :
              /\ reporter' = tryInitialize(reporter, ok)
              /\ IF ReporterSettles(ok) = "resolved"
                   THEN /\ pc' = "next"
                        /\ UNCHANGED <<exitCode, cliError>>
                   ELSE \* adjustAllProjects rejects, the cli's catch exits
                        /\ pc' = "done"
                        /\ exitCode' = ExitStatus(TRUE)
                        /\ cliError' = "ReportError"
       ELSE /\ pc' = "next"
            /\ UNCHANGED <<reporter, exitCode, cliError>>
  /\ UNCHANGED <<outsidePipeline, skipWarnings>>
  /\ UNCHANGED <<cfgVars, allowlist, idx, status, collectedEntries, failures,
                 fileVars, depVars, aggErrors, attempted, threw,
                 scanHist, depHist>>

\* cli action with --all: getAllProjects rejects, the catch of the cli exits
ListingFails ==
  /\ pc = "cli" /\ mode = "all"
  /\ ConfigErrors(env) = {}
  /\ pc' = "done"
  /\ cliError' = "GitlabApiError"
  /\ exitCode' = ExitStatus(TRUE)
  /\ UNCHANGED <<outsidePipeline, skipWarnings>>
  /\ UNCHANGED <<cfgVars, allowlist, idx, status, collectedEntries, failures,
                 fileVars, depVars, reporter, aggErrors, attempted, threw,
                 scanHist, depHist>>

\* cli action with --project-id: adjustTokenScope up to adjustProject
StartSingle ==
  /\ pc = "cli" /\ mode = "single"
  /\ ConfigErrors(env) = {}
  /\ pc' = "next"
  /\ UNCHANGED <<outsidePipeline, skipWarnings>>
  /\ UNCHANGED <<cfgVars, allowlist, idx, status, collectedEntries, failures,
                 fileVars, depVars, reporter, exitCode, cliError, aggErrors,
                 attempted, threw, scanHist, depHist>>

\* variant: a project without an id ends the loop
NextAfterSkipStopping(i, n) == n + 1

\* adjustAllProjects: `continue` after the warning goes to the next project
NextAfterSkip(i, n) == i + 1

\* adjustAllProjects: a listed project without an id is skipped with a warning
SkipProject ==
  /\ pc = "next" /\ mode = "all"
  /\ idx <= Len(projects) /\ cur = NoId
  /\ skipWarnings' = skipWarnings + 1
  /\ idx' = NextAfterSkip(idx, Len(projects))
  /\ UNCHANGED outsidePipeline
  /\ UNCHANGED <<cfgVars, allowlist, pc, status, collectedEntries, failures,
                 fileVars, depVars, reporter, exitCode, cliError, aggErrors,
                 attempted, threw, scanHist, depHist>>

\* adjustProject is called: logger.startProject, then scan begins
StartProject ==
  /\ pc = "next"
  /\ idx <= Len(projects) /\ cur # NoId
  /\ status' = startProject(status, cur)
  /\ attempted' = Append(attempted, cur)
  /\ dependencyFiles' = 0 /\ fileIdx' = 1
  /\ allDependencies' = <<>> /\ fileErrors' = <<>>
  /\ dependencies' = <<>> /\ depIdx' = 1 /\ dependencyProjectId' = 0
  /\ depFailures' = <<>> /\ recon' = "idle" /\ depError' = <<>>
  /\ depOutcome' = <<>> /\ checkedList' = 0 /\ writes' = <<>>
  /\ delivered' = <<>>
  /\ pc' = "details"
  /\ UNCHANGED <<outsidePipeline, skipWarnings>>
  /\ UNCHANGED <<cfgVars, allowlist, idx, collectedEntries, failures,
                 reporter, exitCode, cliError, aggErrors, threw, notFound,
                 fetchFailed,
                 fileFailed, found, pdCalls, reconciled, depFailed>>

\* adjustAllProjects after the loop: finalize, then throw or return
FinishAll ==
  /\ pc = "next" /\ mode = "all"
  /\ idx > Len(projects)
  /\ pc' = "done"
  /\ IF AllThrow(failures)
       THEN /\ aggErrors' = Append(aggErrors, failures)
            /\ cliError' = "AdjustAllProjectsError"
            /\ exitCode' = ExitStatus(TRUE)
       ELSE /\ aggErrors' = aggErrors
            /\ cliError' = cliError
            /\ exitCode' = ExitStatus(FALSE)
  /\ UNCHANGED <<outsidePipeline, skipWarnings>>
  /\ UNCHANGED <<cfgVars, allowlist, idx, status, collectedEntries, failures,
                 fileVars, depVars, reporter, attempted, threw, scanHist,
                 depHist>>

\* scan: fetchProjectDetails (getProject answers)
FetchProjectDetails ==
  /\ pc = "details"
  /\ \E answer \in {"ok", "notFound", "error"} :
       /\ notFound' = IF answer = "notFound" THEN notFound \cup {cur} ELSE notFound
       /\ fetchFailed' = IF answer = "error" THEN fetchFailed \cup {cur}
                                             ELSE fetchFailed
       /\ CASE FetchOutcome(answer) = "value" ->
                 /\ pc' = "tree"
                 /\ UNCHANGED <<idx, status, collectedEntries, failures,
                                reporter, exitCode, cliError, threw>>
            [] FetchOutcome(answer) = "empty" ->
                 \* scan returns null: failProject, adjustProject returns null
                 Returned(failProject(status, cur), <<>>)
            [] OTHER -> Threw("GitlabApiError")
  /\ UNCHANGED <<outsidePipeline, skipWarnings>>
  /\ UNCHANGED <<cfgVars, allowlist, fileVars, depVars, aggErrors, attempted,
                 fileFailed, delivered, found, depHist>>

\* scan: fetchDependencyFiles (findDependencyFiles answers)
FetchDependencyFiles ==
  /\ pc = "tree"
  /\ \E answer \in {"ok", "notFound", "error"} :
       /\ notFound' = IF answer = "notFound" THEN notFound \cup {cur} ELSE notFound
       /\ fetchFailed' = IF answer = "error" THEN fetchFailed \cup {cur}
                                             ELSE fetchFailed
       /\ CASE FetchOutcome(answer) = "value" ->
                 /\ \E n \in 0..MaxFiles : dependencyFiles' = n
                 /\ pc' = "files"
                 /\ UNCHANGED <<idx, status, collectedEntries, failures,
                                reporter, exitCode, cliError, threw>>
            [] FetchOutcome(answer) = "empty" ->
                 /\ dependencyFiles' = 0
                 /\ pc' = "files"
                 /\ UNCHANGED <<idx, status, collectedEntries, failures,
                                reporter, exitCode, cliError, threw>>
            [] OTHER ->
                 /\ dependencyFiles' = dependencyFiles
                 /\ Threw("GitlabApiError")
  /\ UNCHANGED <<outsidePipeline, skipWarnings>>
  /\ UNCHANGED <<cfgVars, allowlist, fileIdx, allDependencies, fileErrors,
                 depVars, aggErrors, attempted, fileFailed, delivered, found,
                 depHist>>

\* processDependencyFile: the calls whose rejection its catch wraps into a
\* DependencyFileProcessingError
FileFailureCauses == {"getFileContent", "extractDependencies"}

\* variant: the first file that fails ends the loop
NextFileAfterFailureAborting(i, n) == n + 1

\* processAllDependencyFiles: the catch inside the loop lets it go on
NextFileAfterFailure(i, n) == i + 1

\* processAllDependencyFiles: the failures of the error it throws,
\* `fileErrors.map(err => ({ dependency: err.file, cause: err.cause }))`
FileFailures(errs) ==
  [i \in 1..Len(errs) |-> [dependency |-> errs[i].file,
                           cause |-> errs[i].cause]]

\* processAllDependencyFiles: one turn of the loop (processDependencyFile),
\* where the file is processed or one of the given calls rejects
ProcessDependencyFileWith(causes) ==
  /\ pc = "files"
  /\ fileIdx <= dependencyFiles
  /\ \/ \E deps \in FileDeps :
          /\ allDependencies' = allDependencies \o deps
          /\ fileIdx' = fileIdx + 1
          /\ UNCHANGED <<fileErrors, fileFailed>>
     \/ \E cause \in causes :
          /\ fileErrors' = Append(fileErrors, [file |-> fileIdx,
                                               cause |-> cause])
          /\ fileFailed' = fileFailed \cup {cur}
          /\ fileIdx' = NextFileAfterFailure(fileIdx, dependencyFiles)
          /\ UNCHANGED allDependencies
  /\ UNCHANGED <<outsidePipeline, skipWarnings>>
  /\ UNCHANGED <<cfgVars, allowlist, pc, idx, status, collectedEntries,
                 failures, dependencyFiles, depVars, reporter, exitCode,
                 cliError, aggErrors, attempted, threw, notFound, fetchFailed,
                 delivered,
                 found, depHist>>

\* the turn within a whole run of the command: what fails is the request for
\* the file
ProcessDependencyFile == ProcessDependencyFileWith({"getFileContent"})

\* the turn when the request for the file or its extractor can fail
ProcessDependencyFileOrExtract == ProcessDependencyFileWith(FileFailureCauses)

\* processAllDependencyFiles after the loop, scan's return and the rest of
\* adjustProject up to its return or its call of processDependencies; the
\* locals of processAllDependencyFiles end with its return
FinishFiles ==
  /\ pc = "files"
  /\ fileIdx > dependencyFiles
  /\ IF FilesThrow(fileErrors)
       THEN /\ Threw("DependencyProcessingError")
            /\ depError' = Append(depError, FileFailures(fileErrors))
            /\ UNCHANGED <<delivered, found, dependencies, depIdx, recon,
                           pdCalls, fileVars>>
       ELSE /\ delivered' = allDependencies
            /\ depError' = depError
            /\ found' = IF Len(allDependencies) > 0 THEN Append(found, cur)
                                                    ELSE found
            /\ dependencyFiles' = 0 /\ fileIdx' = 1
            /\ allDependencies' = <<>> /\ fileErrors' = <<>>
            /\ CASE AdjustBranch(allDependencies, dryRun) = "none" ->
                      /\ Returned(completeProject(status, cur), <<>>)
                      /\ UNCHANGED <<dependencies, depIdx, recon, pdCalls>>
                 [] AdjustBranch(allDependencies, dryRun) = "report" ->
                      /\ Returned(completeProject(status, cur),
                                  <<[projectId |-> cur,
                                     dependencies |-> allDependencies]>>)
                      /\ UNCHANGED <<dependencies, depIdx, recon, pdCalls>>
                 [] OTHER ->
                      /\ dependencies' = allDependencies
                      /\ depIdx' = 1
                      /\ recon' = "running"
                      /\ pdCalls' = pdCalls + 1
                      /\ pc' = "resolve"
                      /\ UNCHANGED <<idx, status, collectedEntries, failures,
                                     reporter, exitCode, cliError, threw>>
  /\ UNCHANGED <<outsidePipeline, skipWarnings>>
  /\ UNCHANGED <<cfgVars, allowlist, dependencyProjectId,
                 depFailures, aggErrors, attempted, notFound, fetchFailed,
                 fileFailed, depOutcome, checkedList, writes,
                 reconciled, depFailed>>

\* variant: the failure replaces the ones recorded before
PushFailureKeepingLast(fs, failure) == <<failure>>

\* processDependencies: `failures.push({ dependency, cause: error })`
PushFailure(fs, failure) == Append(fs, failure)

\* processDependencies: the catch of one dependency's try; cause is the call
\* whose rejection was caught
DepFailed(cause) ==
  /\ depFailures' = PushFailure(depFailures,
                                [dependency |-> dependencies[depIdx],
                                 cause |-> cause])
  /\ depOutcome' = Append(depOutcome, cause)
  /\ depFailed' = depFailed \cup {cur}
  /\ depIdx' = NextDepAfterFailure(depIdx, Len(dependencies))
  /\ pc' = "resolve"

\* processDependencies: getProjectId of the next dependency answers
ResolveDependency ==
  /\ pc = "resolve"
  /\ depIdx <= Len(dependencies)
  /\ \/ /\ dependencyProjectId' = ProjectIdOf(dependencies[depIdx])
        /\ pc' = "check"
        /\ UNCHANGED <<depIdx, depFailures, depOutcome, depFailed>>
     \/ /\ DepFailed("getProjectId")
        /\ UNCHANGED dependencyProjectId
  /\ UNCHANGED <<outsidePipeline, skipWarnings>>
  /\ UNCHANGED <<cfgVars, allowlist, idx, status, collectedEntries, failures,
                 fileVars, dependencies, recon, depError, reporter, exitCode,
                 cliError, aggErrors, attempted, threw, scanHist, checkedList,
                 writes, pdCalls, reconciled>>

\* processDependencies: isProjectWhitelisted answers
CheckAllowlist ==
  /\ pc = "check"
  /\ \/ /\ checkedList' = dependencyProjectId
        /\ IF NeedsWrite(IsProjectWhitelisted(allowlist, cur, dependencyProjectId))
             THEN /\ pc' = "write"
                  /\ UNCHANGED <<depIdx, depOutcome>>
             ELSE /\ pc' = "resolve"
                  /\ depIdx' = depIdx + 1
                  /\ depOutcome' = Append(depOutcome, "skip")
        /\ UNCHANGED <<depFailures, depFailed>>
     \/ /\ DepFailed("isProjectWhitelisted")
        /\ UNCHANGED checkedList
  /\ UNCHANGED <<outsidePipeline, skipWarnings>>
  /\ UNCHANGED <<cfgVars, allowlist, idx, status, collectedEntries, failures,
                 fileVars, dependencies, dependencyProjectId, recon, depError,
                 reporter, exitCode, cliError, aggErrors, attempted, threw,
                 scanHist, writes, pdCalls, reconciled>>

\* processDependencies: allowCiJobTokenAccess answers
AllowAccess ==
  /\ pc = "write"
  /\ LET w == [src |-> cur, path |-> dependencies[depIdx],
               listed |-> cur \in allowlist[dependencyProjectId]]
     IN
     \/ /\ allowlist' = GrantAccess(allowlist, dependencyProjectId, cur)
        /\ writes' = Append(writes, w @@ [ok |-> TRUE])
        /\ depOutcome' = Append(depOutcome, "ok")
        /\ depIdx' = depIdx + 1
        /\ pc' = "resolve"
        /\ UNCHANGED <<depFailures, depFailed>>
     \/ /\ DepFailed("allowCiJobTokenAccess")
        /\ writes' = Append(writes, w @@ [ok |-> FALSE])
        /\ UNCHANGED allowlist
  /\ UNCHANGED <<outsidePipeline, skipWarnings>>
  /\ UNCHANGED <<cfgVars, idx, status, collectedEntries, failures, fileVars,
                 dependencies, dependencyProjectId, recon, depError, reporter,
                 exitCode, cliError, aggErrors, attempted, threw, scanHist,
                 checkedList, pdCalls, reconciled>>

\* processDependencies after the loop and adjustProject's return
FinishDependencies ==
  /\ pc = "resolve"
  /\ depIdx > Len(dependencies)
  /\ IF DepsThrow(depFailures)
       THEN /\ recon' = "threw"
            /\ depError' = Append(depError, depFailures)
            /\ reconciled' = reconciled
            /\ Threw("DependencyProcessingError")
       ELSE /\ recon' = "returned"
            /\ depError' = depError
            /\ reconciled' = reconciled \cup
                 {<<cur, dependencies[i]>> : i \in 1..Len(dependencies)}
            /\ Returned(completeProject(status, cur), <<>>)
  /\ UNCHANGED <<outsidePipeline, skipWarnings>>
  /\ UNCHANGED <<cfgVars, allowlist, fileVars, dependencies, depIdx,
                 dependencyProjectId, depFailures, aggErrors, attempted,
                 scanHist, depOutcome, checkedList, writes, pdCalls,
                 depFailed>>

\* the command is run again, against the allowlists the earlier run left
Rerun ==
  /\ pc = "done"
  /\ run < MaxRuns
  /\ run' = run + 1
  /\ granted' = reconciled
  /\ pc' = "cli" /\ idx' = 1
  /\ status' = [p \in ProjectIds |-> "pending"]
  /\ collectedEntries' = <<>> /\ failures' = <<>>
  /\ dependencyFiles' = 0 /\ fileIdx' = 1
  /\ allDependencies' = <<>> /\ fileErrors' = <<>>
  /\ dependencies' = <<>> /\ depIdx' = 1 /\ dependencyProjectId' = 0
  /\ depFailures' = <<>> /\ recon' = "idle" /\ depError' = <<>>
  /\ reporter' = NewReporter
  /\ exitCode' = -1 /\ cliError' = "none" /\ aggErrors' = <<>>
  /\ attempted' = <<>> /\ threw' = <<>> /\ notFound' = {}
  /\ fetchFailed' = {}
  /\ fileFailed' = {} /\ depFailed' = {}
  /\ depOutcome' = <<>> /\ checkedList' = 0
  /\ writes' = <<>> /\ pdCalls' = 0
  /\ delivered' = <<>> /\ found' = <<>>
  /\ reconciled' = {}
  /\ skipWarnings' = 0
  /\ UNCHANGED outsidePipeline
  /\ UNCHANGED <<mode, dryRun, reportPath, env, projects, allowlist>>

Next ==
  \/ ConfigFails
  \/ StartAll
  \/ ListingFails
  \/ StartSingle
  \/ SkipProject
  \/ StartProject
  \/ FinishAll
  \/ FetchProjectDetails
  \/ FetchDependencyFiles
  \/ ProcessDependencyFile
  \/ FinishFiles
  \/ ResolveDependency
  \/ CheckAllowlist
  \/ AllowAccess
  \/ FinishDependencies

\* one invocation of the command, in either mode
Spec == Init /\ [][Next]_vars

\* the command with --project-id and without --dry-run, run again and again on
\* the same project
InitRerun == Init /\ mode = "single" /\ ~dryRun /\ env = Credentials

NextRerun ==
  \/ StartSingle
  \/ StartProject
  \/ FetchProjectDetails
  \/ FetchDependencyFiles
  \/ ProcessDependencyFile
  \/ FinishFiles
  \/ ResolveDependency
  \/ CheckAllowlist
  \/ AllowAccess
  \/ FinishDependencies
  \/ Rerun

SpecRerun == InitRerun /\ [][NextRerun]_vars

\* ------------------------------------------------------ manifest extractors
\* host of the configured GitLab URL, https://gitlab
Host == "gitlab"

Url(scheme, host, path) == [scheme |-> scheme, host |-> host, path |-> path]

\* an entry that has no URL
NoUrl == Url("none", "", <<>>)

\* an entry of a manifest: a URL (of a package, a repository or a node), the
\* node whose nested dependencies map holds it (0: the top-level map), and for
\* go.mod the kind of line
Item(line, url, parent) == [line |-> line, url |-> url, parent |-> parent]

\* GitLab: path_with_namespace of the project with a numeric id
PathOfProject(id) == IF id = "7" THEN <<"g", "p">> ELSE <<"g", "q">>

\* String.toLowerCase on a path segment
LowerSeg(s) == IF s = "API" THEN "api" ELSE s

\* replace(/\.git$/i, '') on the last path segment
StripGitSeg(s) == IF s = "p.git" THEN "p" ELSE s

\* decodeURIComponent on a path segment: %2F becomes a separator
DecodeSeg(s) == IF s = "g%2Fp" THEN <<"g", "p">> ELSE <<s>>

\* /^\d+$/.test
IsDigits(s) == s \in {"7", "8", "240", "241"}

Lower(path) == [i \in 1..Len(path) |-> LowerSeg(path[i])]

RECURSIVE Decode(_)
Decode(path) ==
  IF path = <<>> THEN <<>> ELSE DecodeSeg(Head(path)) \o Decode(Tail(path))

StartsWith(path, prefix) ==
  Len(path) >= Len(prefix) /\ SubSeq(path, 1, Len(prefix)) = prefix

Least(S) == CHOOSE i \in S : \A j \in S : i <= j

\* Set.add on a set kept in insertion order
SetAdd(seq, x) == IF x \in SeqToSet(seq) THEN seq ELSE Append(seq, x)

\* new URL(url) succeeds
Parses(url) == url.scheme = "https"

\* url matches /^git@([^:]+):(.+)$/i
ScpLike(url) == url.scheme = "scp"

\* ComposerLockProcessor.normalizeProjectPath: cut at '/-/', strip .git, decode;
\* <<>> stands for null
normalizeProjectPath(path) ==
  LET marks == {i \in 2..(Len(path) - 1) : path[i] = "-"}
      cut == IF marks = {} THEN path ELSE SubSeq(path, 1, Least(marks) - 1)
      noGit == IF cut = <<>> THEN <<>>
               ELSE [cut EXCEPT ![Len(cut)] = StripGitSeg(@)]
  IN  Decode(noGit)

\* ComposerLockProcessor.extractProjectPath; <<>> stands for null
extractProjectPath(url) ==
  IF (Parses(url) \/ ScpLike(url)) /\ url.host = Host
    THEN LET normalized == normalizeProjectPath(url.path)
         IN  IF /\ Len(normalized) > 3
                /\ StartsWith(Lower(normalized), <<"api", "v4", "projects">>)
               THEN <<>>
               ELSE normalized
    ELSE <<>>

\* ComposerLockProcessor.extractApiReference
extractApiReference(url) ==
  LET at == {i \in 1..Len(url.path) : url.path[i] = "projects"}
  IN  IF ~(Parses(url) /\ url.host = Host) THEN [type |-> "none", value |-> <<>>]
      ELSE IF at = {} \/ Least(at) = Len(url.path)
        THEN [type |-> "none", value |-> <<>>]
      ELSE IF IsDigits(url.path[Least(at) + 1])
        THEN [type |-> "id", value |-> <<url.path[Least(at) + 1]>>]
      ELSE [type |-> "path", value |-> DecodeSeg(url.path[Least(at) + 1])]

\* NpmProcessor.extractProjectId: the digits captured by
\* <gitlabUrl>/api/v4/projects/(\d+)/packages, "" for null
extractProjectId(url) ==
  IF /\ Parses(url) /\ url.host = Host
     /\ Len(url.path) >= 5
     /\ SubSeq(url.path, 1, 3) = <<"api", "v4", "projects">>
     /\ IsDigits(url.path[4])
     /\ url.path[5] = "packages"
    THEN url.path[4]
    ELSE ""

\* isUnsupportedEndpoint / isGroupEndpoint: a group package endpoint of the host
IsGroupEndpoint(url) ==
  /\ Parses(url) /\ url.host = Host
  /\ Len(url.path) > 3
  /\ \/ StartsWith(Lower(url.path), <<"api", "v4", "groups">>)
     \/ StartsWith(Lower(url.path), <<"api", "v4", "group">>)

\* the key the endpoint is remembered under: parsed.pathname.toLowerCase()
EndpointKey(url) == Lower(url.path)

\* variant: the endpoint is not looked up among the remembered ones
NeedsWarningAlways(seen, key) == TRUE

\* isUnsupportedEndpoint / isGroupEndpoint: warn when the key is new
NeedsWarning(seen, key) == key \notin seen

\* variant: the catch logs and rethrows
OnLookupErrorRethrowing(id) == "rethrow"

\* resolveProjectId / addProjectToSet: the catch logs and the call goes on
OnLookupError(id) == "continue"

\* variant: every entry that has a URL is taken, whatever its host
UrlIncludesAnyHost(url) == url.scheme # "none"

\* ComposerProcessor: repository.url && repository.url.includes(strippedUrl)
UrlIncludesHost(url) == url.scheme # "none" /\ url.host = Host

\* ComposerProcessor: repository.url.replace(`https://${strippedUrl}/`, '')
StripHostPrefix(url) ==
  IF url.scheme = "https" THEN url.path
  ELSE <<"git@" \o url.host \o ":">> \o url.path

\* Map.has / Map.set on projectCache (<<>> as value stands for null)
CacheHas(cache, id) == id \in DOMAIN cache
CacheSet(cache, id, value) == (id :> value) @@ cache

LogEntry(level, event, ref) == [level |-> level, event |-> event, ref |-> ref]

\* manifests of up to MaxRefs entries
GitUrl(path) == Url("https", Host, path)

LockUrls ==
  {GitUrl(<<"g", "p">>), GitUrl(<<"g", "p.git">>), GitUrl(<<"g%2Fp">>),
   Url("scp", Host, <<"g", "p.git">>),
   GitUrl(<<"g", "p", "-", "archive">>),
   GitUrl(<<"api", "v4", "projects", "7", "packages">>),
   GitUrl(<<"api", "v4", "projects", "8", "packages">>),
   GitUrl(<<"api", "v4", "projects", "g%2Fp", "archive.zip">>),
   GitUrl(<<"api", "v4", "groups", "240", "-", "packages">>),
   GitUrl(<<"API", "v4", "groups", "240", "-", "packages">>),
   GitUrl(<<"api", "v4", "groups", "241", "-", "packages">>),
   Url("https", "other", <<"g", "p">>)}

RepositoryUrls ==
  {GitUrl(<<"g", "p">>), GitUrl(<<"g", "p.git">>),
   Url("scp", Host, <<"g", "p.git">>),
   GitUrl(<<"api", "v4", "groups", "240", "-", "packages">>),
   GitUrl(<<"API", "v4", "groups", "240", "-", "packages">>),
   GitUrl(<<"api", "v4", "groups", "241", "-", "packages">>),
   Url("https", "other", <<"g", "p">>), NoUrl}

ResolvedUrls ==
  {GitUrl(<<"api", "v4", "projects", "7", "packages">>),
   GitUrl(<<"api", "v4", "projects", "8", "packages">>),
   GitUrl(<<"g", "p">>), NoUrl}

GoLines ==
  {Item("require (", NoUrl, 0), Item(")", NoUrl, 0),
   Item("entry", Url("module", Host, <<"g", "p">>), 0),
   Item("entry", Url("module", "other", <<"g", "p">>), 0)}

Content(form, items) == [form |-> form, items |-> items]

\* the file contents a processor can be handed: text that is not JSON, the
\* JSON value null, or a manifest with entries
Contents(kind) ==
  CASE kind = "go.mod" ->
         {Content("text", l) : l \in SeqsUpTo(GoLines, MaxRefs)}
    [] kind = "composer.json" ->
         {Content("notJson", <<>>), Content("null", <<>>)} \cup
         {Content("object", [i \in 1..Len(l) |-> Item("", l[i], 0)]) :
            l \in SeqsUpTo(RepositoryUrls, MaxRefs)}
    [] kind = "composer.lock" ->
         {Content("notJson", <<>>), Content("null", <<>>)} \cup
         {Content("object", [i \in 1..Len(l) |-> Item("", l[i], 0)]) :
            l \in SeqsUpTo(LockUrls, MaxRefs)}
    [] OTHER ->
         {Content("notJson", <<>>), Content("null", <<>>)} \cup
         {Content("object", l) :
            l \in {m \in SeqsUpTo({Item("", u, q) : u \in ResolvedUrls,
                                                  q \in 0..(MaxRefs - 1)},
                                  MaxRefs) :
                     \A i \in 1..Len(m) : m[i].parent < i}}

ProcessorKinds == {"go.mod", "composer.json", "composer.lock", "package-lock.json"}

\* the entries of a dependencies map, in Object.values order
Children(owner) ==
  SelectSeq([i \in 1..Len(fileContent.items) |-> i],
            LAMBDA i : fileContent.items[i].parent = owner)

\* the entry the walk is at
item == fileContent.items[current[pos]]

\* what the head of extractDependencies does with the text: "walk" the
\* entries, return the empty list after logging ("failed") or without
\* logging ("empty"), or let the exception out ("threw")
ParseOutcome(kind, form, n) ==
  CASE kind = "go.mod" -> "walk"
    [] kind = "composer.json" ->
         \* JSON.parse and the read of .repositories are inside the try
         IF form = "object" THEN "walk" ELSE "failed"
    [] kind = "composer.lock" ->
         \* JSON.parse is inside the try, the read of .packages is not
         CASE form = "notJson" -> "failed"
           [] form = "null" -> "threw"
           [] OTHER -> IF n = 0 THEN "empty" ELSE "walk"
    [] OTHER ->
         \* NpmProcessor: JSON.parse and the read of .dependencies are bare
         IF form = "object" THEN "walk" ELSE "threw"

walkVars == <<stack, current, pos, isRequireBlock, extracted, projectCache,
              unsupportedReferences, log, lookups, visited>>

\* the number of the id the outstanding getProject request is for
PendingId ==
  IF processor = "composer.lock" THEN extractApiReference(item.url).value[1]
  ELSE extractProjectId(item.url)

\* extractDependencies up to its loop
ExtractParse ==
  /\ xpc = "parse"
  /\ LET n == Len(fileContent.items)
         outcome == ParseOutcome(processor, fileContent.form, n)
     IN  /\ xpc' = CASE outcome = "walk" -> "walk"
                     [] outcome = "threw" -> "threw"
                     [] OTHER -> "returned"
         /\ log' = IF outcome = "failed"
                     THEN Append(log, LogEntry("error", "parse", <<>>))
                     ELSE log
         /\ current' = IF outcome = "walk" /\ processor # "package-lock.json"
                         THEN [i \in 1..n |-> i] ELSE <<>>
         /\ stack' = IF outcome = "walk" /\ processor = "package-lock.json"
                       THEN <<0>> ELSE <<>>
  /\ pos' = 1
  /\ UNCHANGED <<processor, fileContent, isRequireBlock, extracted,
                 projectCache, unsupportedReferences, lookups, visited>>
  /\ UNCHANGED outsideExtract

\* a group package endpoint is skipped, with a warning when it is new
SkipGroupEndpoint(url) ==
  /\ unsupportedReferences' = unsupportedReferences \cup {EndpointKey(url)}
  /\ log' = IF NeedsWarning(unsupportedReferences, EndpointKey(url))
              THEN Append(log, LogEntry("warn", "group", EndpointKey(url)))
              ELSE log

\* the loop goes on to the next entry
NextEntry ==
  /\ pos' = pos + 1
  /\ visited' = Append(visited, current[pos])

\* GoModProcessor.extractDependencies: one line
GoModLine ==
  /\ xpc = "walk" /\ processor = "go.mod" /\ pos <= Len(current)
  /\ CASE item.line = "require (" ->
            isRequireBlock' = TRUE /\ extracted' = extracted
       [] item.line = ")" ->
            isRequireBlock' = FALSE /\ extracted' = extracted
       [] OTHER ->
            /\ isRequireBlock' = isRequireBlock
            /\ extracted' = IF isRequireBlock /\ UrlIncludesHost(item.url)
                              THEN Append(extracted, item.url.path)
                              ELSE extracted
  /\ NextEntry
  /\ UNCHANGED <<processor, fileContent, xpc, stack, current, projectCache,
                 unsupportedReferences, log, lookups>>
  /\ UNCHANGED outsideExtract

\* ComposerProcessor.extractDependencies: one entry of repositories
ComposerRepository ==
  /\ xpc = "walk" /\ processor = "composer.json" /\ pos <= Len(current)
  /\ IF UrlIncludesHost(item.url)
       THEN IF IsGroupEndpoint(item.url)
              THEN SkipGroupEndpoint(item.url) /\ extracted' = extracted
              ELSE /\ extracted' = Append(extracted, StripHostPrefix(item.url))
                   /\ UNCHANGED <<unsupportedReferences, log>>
       ELSE /\ log' = Append(log, LogEntry("warn", "skip", <<>>))
            /\ UNCHANGED <<unsupportedReferences, extracted>>
  /\ NextEntry
  /\ UNCHANGED <<processor, fileContent, xpc, stack, current, isRequireBlock,
                 projectCache, lookups>>
  /\ UNCHANGED outsideExtract

\* ComposerLockProcessor.extractDependencies: one source.url or dist.url, up
\* to the answer of getProject when the id is not cached
ComposerLockUrl ==
  /\ xpc = "walk" /\ processor = "composer.lock" /\ pos <= Len(current)
  /\ LET url == item.url
         directPath == extractProjectPath(url)
         apiReference == extractApiReference(url)
         id == apiReference.value[1]
     IN
     IF IsGroupEndpoint(url)
       THEN /\ SkipGroupEndpoint(url) /\ NextEntry
            /\ UNCHANGED <<xpc, extracted, lookups>>
     ELSE IF directPath # <<>>
       THEN /\ extracted' = SetAdd(extracted, directPath) /\ NextEntry
            /\ UNCHANGED <<xpc, unsupportedReferences, log, lookups>>
     ELSE IF apiReference.type = "none"
       THEN /\ NextEntry
            /\ UNCHANGED <<xpc, extracted, unsupportedReferences, log, lookups>>
     ELSE IF apiReference.type = "path"
       THEN /\ extracted' = SetAdd(extracted, apiReference.value) /\ NextEntry
            /\ UNCHANGED <<xpc, unsupportedReferences, log, lookups>>
     ELSE IF CacheHas(projectCache, id)
       THEN /\ extracted' = IF projectCache[id] # <<>>
                              THEN SetAdd(extracted, projectCache[id])
                              ELSE extracted
            /\ NextEntry
            /\ UNCHANGED <<xpc, unsupportedReferences, log, lookups>>
     ELSE /\ xpc' = "lookup"
          /\ lookups' = Append(lookups, id)
          /\ UNCHANGED <<pos, visited, extracted, unsupportedReferences, log>>
  /\ UNCHANGED <<processor, fileContent, stack, current, isRequireBlock,
                 projectCache>>
  /\ UNCHANGED outsideExtract

\* NpmProcessor.extractDependencies: the next dependencies map is popped
NpmPop ==
  /\ xpc = "walk" /\ processor = "package-lock.json"
  /\ pos > Len(current) /\ stack # <<>>
  /\ current' = Children(stack[Len(stack)])
  /\ stack' = SubSeq(stack, 1, Len(stack) - 1)
  /\ pos' = 1
  /\ UNCHANGED <<processor, fileContent, xpc, isRequireBlock, extracted,
                 projectCache, unsupportedReferences, log, lookups, visited>>
  /\ UNCHANGED outsideExtract

\* processDependency: details.dependencies is pushed when it exists
PushNested ==
  stack' = IF Children(current[pos]) # <<>> THEN Append(stack, current[pos])
                                            ELSE stack

\* NpmProcessor.processDependency: one node, up to the answer of getProject
NpmDependency ==
  /\ xpc = "walk" /\ processor = "package-lock.json" /\ pos <= Len(current)
  /\ IF item.url = NoUrl
       THEN /\ NextEntry
            /\ UNCHANGED <<xpc, stack, lookups>>
       ELSE IF extractProjectId(item.url) = ""
         THEN /\ PushNested /\ NextEntry
              /\ UNCHANGED <<xpc, lookups>>
         ELSE /\ xpc' = "lookup"
              /\ lookups' = Append(lookups, extractProjectId(item.url))
              /\ UNCHANGED <<stack, pos, visited>>
  /\ UNCHANGED <<processor, fileContent, current, isRequireBlock, extracted,
                 projectCache, unsupportedReferences, log>>
  /\ UNCHANGED outsideExtract

\* getProject answers: resolveProjectId (ComposerLockProcessor) or
\* addProjectToSet (NpmProcessor) and the rest of the turn
GetProjectAnswers ==
  /\ xpc = "lookup"
  /\ \/ /\ extracted' = SetAdd(extracted, PathOfProject(PendingId))
        /\ projectCache' =
             IF processor = "composer.lock"
               THEN CacheSet(projectCache, PendingId, PathOfProject(PendingId))
               ELSE projectCache
        /\ log' = log
        /\ xpc' = "walk"
        /\ NextEntry
        /\ IF processor = "package-lock.json" THEN PushNested
                                              ELSE stack' = stack
     \/ /\ extracted' = extracted
        /\ projectCache' =
             IF processor = "composer.lock"
               THEN CacheSet(projectCache, PendingId, <<>>)
               ELSE projectCache
        /\ log' = Append(log, LogEntry("error", "lookup", <<PendingId>>))
        /\ IF OnLookupError(PendingId) = "continue"
             THEN /\ xpc' = "walk"
                  /\ NextEntry
                  /\ IF processor = "package-lock.json"
                       THEN PushNested ELSE stack' = stack
             ELSE /\ xpc' = "threw"
                  /\ UNCHANGED <<pos, visited, stack>>
  /\ UNCHANGED <<processor, fileContent, current, isRequireBlock,
                 unsupportedReferences, lookups>>
  /\ UNCHANGED outsideExtract

\* extractDependencies returns its list
ExtractReturn ==
  /\ xpc = "walk"
  /\ pos > Len(current) /\ stack = <<>>
  /\ xpc' = "returned"
  /\ UNCHANGED <<processor, fileContent, walkVars>>
  /\ UNCHANGED outsideExtract

\* processDependencyFile of --project-id 1: a processor is created for a
\* manifest of project 1 and handed its content
InitExtract ==
  /\ mode = "single" /\ dryRun = FALSE /\ reportPath = FALSE
  /\ env = Credentials
  /\ projects = <<1>>
  /\ allowlist = [d \in AllIds |-> {d}]
  /\ run = 1 /\ granted = {}
  /\ pc = "files" /\ idx = 1
  /\ status = startProject([p \in ProjectIds |-> "pending"], 1)
  /\ collectedEntries = <<>> /\ failures = <<>>
  /\ dependencyFiles = 1 /\ fileIdx = 1
  /\ allDependencies = <<>> /\ fileErrors = <<>>
  /\ dependencies = <<>> /\ depIdx = 1 /\ dependencyProjectId = 0
  /\ depFailures = <<>> /\ recon = "idle" /\ depError = <<>>
  /\ reporter = NewReporter
  /\ exitCode = -1 /\ cliError = "none" /\ aggErrors = <<>>
  /\ attempted = <<1>> /\ threw = <<>> /\ notFound = {} /\ fetchFailed = {}
  /\ fileFailed = {} /\ depFailed = {}
  /\ depOutcome = <<>> /\ checkedList = 0 /\ writes = <<>>
  /\ pdCalls = 0
  /\ delivered = <<>> /\ found = <<>>
  /\ reconciled = {} /\ skipWarnings = 0
  /\ processor \in ProcessorKinds
  /\ fileContent \in Contents(processor)
  /\ xpc = "parse"
  /\ stack = <<>> /\ current = <<>> /\ pos = 1
  /\ isRequireBlock = FALSE
  /\ extracted = <<>>
  /\ projectCache = <<>>
  /\ unsupportedReferences = {}
  /\ log = <<>> /\ lookups = <<>> /\ visited = <<>>
  /\ ClientIdle
  /\ ReporterIdle
  /\ OrderIdle
  /\ ListingIdle

NextExtract ==
  \/ ExtractParse
  \/ GoModLine
  \/ ComposerRepository
  \/ ComposerLockUrl
  \/ NpmPop
  \/ NpmDependency
  \/ GetProjectAnswers
  \/ ExtractReturn

SpecExtract == InitExtract /\ [][NextExtract]_vars

\* one call processDependencies(gitlabClient, dependencies, 1) made by
\* adjustProject for project 1, with a dependency list of up to MaxDeps paths
InitReconcile ==
  /\ mode = "single" /\ dryRun = FALSE /\ reportPath = FALSE
  /\ env = Credentials
  /\ projects = <<1>>
  /\ allowlist \in AllowlistInits
  /\ run = 1 /\ granted = {}
  /\ pc = "resolve" /\ idx = 1
  /\ status = startProject([p \in ProjectIds |-> "pending"], 1)
  /\ collectedEntries = <<>> /\ failures = <<>>
  /\ dependencyFiles = 0 /\ fileIdx = 1
  /\ allDependencies = <<>> /\ fileErrors = <<>>
  /\ dependencies \in SeqsUpTo(Paths, MaxDeps)
  /\ Len(dependencies) > 0
  /\ depIdx = 1 /\ dependencyProjectId = 0
  /\ depFailures = <<>> /\ recon = "running" /\ depError = <<>>
  /\ reporter = NewReporter
  /\ exitCode = -1 /\ cliError = "none" /\ aggErrors = <<>>
  /\ attempted = <<1>> /\ threw = <<>> /\ notFound = {} /\ fetchFailed = {}
  /\ fileFailed = {} /\ depFailed = {}
  /\ depOutcome = <<>> /\ checkedList = 0 /\ writes = <<>>
  /\ pdCalls = 1
  /\ delivered = dependencies /\ found = <<1>>
  /\ reconciled = {} /\ skipWarnings = 0
  /\ ExtractIdle
  /\ ClientIdle
  /\ ReporterIdle
  /\ OrderIdle
  /\ ListingIdle

NextReconcile ==
  \/ ResolveDependency
  \/ CheckAllowlist
  \/ AllowAccess
  \/ FinishDependencies

SpecReconcile == InitReconcile /\ [][NextReconcile]_vars

\* ------------------------------------------- GitlabClient: requests and pages
\* resolvePositiveInteger on an optional integer: undefined and every value
\* below 1 give undefined
resolvePositiveInteger(value) ==
  IF value = Undefined THEN Undefined
  ELSE IF value[1] <= 0 THEN Undefined
  ELSE value

\* what transport.request can reject with: an AxiosError with the status of
\* its response (0: no response) and its code, or something that is no
\* AxiosError
TransportErrors ==
  {[axios |-> TRUE, status |-> s, code |-> "ERR_BAD_RESPONSE"] :
     s \in {404, TooManyRequests, ServerErrorFloor, 503}}
  \cup {[axios |-> TRUE, status |-> 0, code |-> c] :
          c \in {"ECONNRESET", "ETIMEDOUT", "ENOTFOUND", "ERR_NETWORK"}}
  \cup {[axios |-> FALSE, status |-> 0, code |-> "none"]}

\* GitlabApiError.isRetryable
isRetryable(error) ==
  \/ error.status # 0
       /\ (error.status = TooManyRequests \/ error.status >= ServerErrorFloor)
  \/ error.code \in {"ECONNABORTED", "ECONNRESET", "ETIMEDOUT", "ENOTFOUND",
                     "EAI_AGAIN"}

\* GitlabApiError.fromUnknown: every rejection becomes a GitlabApiError; what
\* is no AxiosError is never retryable
fromUnknown(error) ==
  [name |-> "GitlabApiError",
   statusCode |-> IF error.axios THEN error.status ELSE 0,
   code |-> error.code,
   retryable |-> IF error.axios THEN isRetryable(error) ELSE FALSE]

\* executeRequest: maxAttempts
maxAttempts == IF maxRetries + 1 > 1 THEN maxRetries + 1 ELSE 1

\* variant: the last allowed attempt is retried as well
RetriesOnceMore(n, err) == n <= maxAttempts /\ err.retryable

\* executeRequest: the test of its catch, `attempt < maxAttempts &&
\* apiError.retryable`
Retries(n, err) == n < maxAttempts /\ err.retryable

\* the x-next-page header of a response: absent, '', '0' or a page number
NextPageHeaders == {"absent", "", "0", "n"}

\* the rows of a page of the project listing: none, or one project
ProjectPages == {<<>>, <<"project">>}

\* the rows of a page of a repository tree
TreePages == {<<>>, <<"go.mod">>, <<"README.md">>, <<"old-go.mod">>}

\* findDependencyFiles: `nextPage !== '' && !isNaN(Number(nextPage))`;
\* Number(undefined) is NaN, Number('0') is 0
TreeHasNextPage(header) == header # "" /\ header # "absent"

\* variant: the header '0' announces a next page
ListHasNextPageAtZero(header) == header \notin {"absent", ""}

\* getAllProjects: `Boolean(nextPageHeader && nextPageHeader !== '0')`
ListHasNextPage(header) == header \notin {"absent", ""} /\ header # "0"

\* getAllProjects: `pageLimit && fetchedPages >= pageLimit`
PageLimitReached(limit, fetched) ==
  limit # Undefined /\ fetched >= limit[1]

\* findDependencyFiles: targetFiles
targetFiles == {"go.mod", "composer.json", "package-lock.json"}

\* String.endsWith on the names of the tree rows
EndsWith(name, file) ==
  name = file \/ (name = "old-go.mod" /\ file = "go.mod")

\* findDependencyFiles: the names that end with a manifest name
IsTargetFile(name) == \E file \in targetFiles : EndsWith(name, file)

\* getAllProjects: pageLimit
pageLimit == resolvePositiveInteger(pageLimitOption)

\* the head of the while loop: leave it and return, or call executeRequest
\* for the page, which makes its first attempt
LoopHead(next, fetched, pg) ==
  IF \/ ~next
     \/ api = "getAllProjects" /\ PageLimitReached(pageLimit, fetched)
    THEN /\ cpc' = "returned"
         /\ attempt' = attempt
         /\ requested' = requested
    ELSE /\ cpc' = "attempt"
         /\ attempt' = 1
         /\ requested' = Append(requested, pg)

\* getAllProjects / findDependencyFiles is called: locals, first loop head
CallStarts ==
  /\ cpc = "call"
  /\ LoopHead(hasNextPage, fetchedPages, page)
  /\ UNCHANGED <<api, maxRetries, pageLimitOption, page, hasNextPage,
                 fetchedPages, apiError, collected, answers>>
  /\ UNCHANGED outsideClient

\* transport.request resolves: executeRequest returns the response, the rest
\* of the loop body runs, then the loop head. GitLab announces a next page
\* for fewer than MaxPages pages.
TransportResponds ==
  /\ cpc = "attempt"
  /\ \E data \in IF api = "getAllProjects" THEN ProjectPages ELSE TreePages,
        header \in NextPageHeaders :
       /\ header \in {"n", "0"} => page < MaxPages
       /\ answers' = Append(answers, [data |-> data, header |-> header])
       /\ apiError' = NoError
       /\ IF api = "getAllProjects" /\ data = <<>>
            THEN \* break on an empty page
                 /\ cpc' = "returned"
                 /\ UNCHANGED <<attempt, requested, page, hasNextPage,
                                fetchedPages, collected>>
            ELSE /\ fetchedPages' = fetchedPages + 1
                 /\ collected' = collected \o [i \in 1..Len(data) |->
                                                <<page, data[i]>>]
                 /\ hasNextPage' = IF api = "getAllProjects"
                                     THEN ListHasNextPage(header)
                                     ELSE TreeHasNextPage(header)
                 /\ page' = page + 1
                 /\ LoopHead(hasNextPage', fetchedPages', page')
  /\ UNCHANGED <<api, maxRetries, pageLimitOption>>
  /\ UNCHANGED outsideClient

\* transport.request rejects: the catch of executeRequest waits and goes on
\* to the next attempt, or throws the GitlabApiError, which the listing call
\* does not catch
TransportFails ==
  /\ cpc = "attempt"
  /\ \E error \in TransportErrors :
       /\ apiError' = fromUnknown(error)
       /\ cpc' = IF Retries(attempt, apiError') THEN "delay" ELSE "threw"
  /\ UNCHANGED <<api, maxRetries, pageLimitOption, page, hasNextPage,
                 fetchedPages, attempt, collected, requested, answers>>
  /\ UNCHANGED outsideClient

\* the delay of executeRequest has passed: the next attempt
RetryAfterDelay ==
  /\ cpc = "delay"
  /\ attempt' = attempt + 1
  /\ cpc' = "attempt"
  /\ UNCHANGED <<api, maxRetries, pageLimitOption, page, hasNextPage,
                 fetchedPages, apiError, collected, requested, answers>>
  /\ UNCHANGED outsideClient

\* findDependencyFiles: the names it returns
TreeResult(rows) == SelectSeq(rows, LAMBDA r : IsTargetFile(r[2]))

\* one call of getAllProjects or of findDependencyFiles on a client whose
\* maxRetries passed parseNumberEnv('GITLAB_HTTP_MAX_RETRIES', 0)
InitClient ==
  /\ PipelineIdle
  /\ ExtractIdle
  /\ ReporterIdle
  /\ OrderIdle
  /\ ListingIdle
  /\ api \in {"getAllProjects", "findDependencyFiles"}
  /\ maxRetries \in 0..MaxRetries
  /\ pageLimitOption \in {Undefined} \cup {<<n>> : n \in 0..MaxPages}
  /\ api = "findDependencyFiles" => pageLimitOption = Undefined
  /\ cpc = "call"
  /\ page = 1 /\ hasNextPage = TRUE /\ fetchedPages = 0
  /\ attempt = 0 /\ apiError = NoError
  /\ collected = <<>> /\ requested = <<>> /\ answers = <<>>

NextClient ==
  \/ CallStarts
  \/ TransportResponds
  \/ TransportFails
  \/ RetryAfterDelay

SpecClient == InitClient /\ [][NextClient]_vars

\* the same call when every step that can be taken is taken in the end
SpecClientFair == SpecClient /\ WF_vars(NextClient)

\* ---------------------------------------- report generator and DryRunReporter
\* report entries handed to a reporter: a project with no, one or two
\* dependencies
ReportEntries ==
  {[projectName |-> p[1], projectId |-> p[2], dependencies |-> ds] :
     p \in {<<"g/a", 1>>, <<"g/c", 2>>},
     ds \in {<<>>, <<"g/b">>, <<"g/b", "g/lib">>}}

\* serializeValue: JSON.stringify of a string without special characters
serializeValue(value) == <<"\"", value, "\"">>

\* variant: the entries are not filtered
WithDependenciesAll(entries) == entries

\* buildYamlReport: `entries.filter(entry => entry.dependencies.length > 0)`
WithDependencies(entries) ==
  SelectSeq(entries, LAMBDA entry : Len(entry.dependencies) > 0)

\* buildYamlReport: the lines of one entry, its name and its dependencies
EntryLines(entry) ==
  <<serializeValue(entry.projectName) \o <<":">>>>
    \o [i \in 1..Len(entry.dependencies) |->
          <<"  - ">> \o serializeValue(entry.dependencies[i])]

\* buildYamlReport: the document as its lines, each ended by a newline
RECURSIVE JoinLines(_)
JoinLines(filtered) ==
  IF filtered = <<>> THEN <<>>
  ELSE EntryLines(Head(filtered)) \o JoinLines(Tail(filtered))

buildYamlReport(entries) ==
  IF Len(WithDependencies(entries)) = 0 THEN <<<<"{}">>>>
  ELSE JoinLines(WithDependencies(entries))

\* the writeYamlReport calls one append makes: the truncating one of
\* tryInitialize when the reporter is not ready, then the full report when it
\* is ready
AppendWrites(r, entry, initOk, writeOk) ==
  LET r1 == [r EXCEPT !.entries = Append(@, entry)]
      r2 == IF ~r1.ready THEN tryInitialize(r1, initOk) ELSE r1
  IN  (IF ~r1.ready
         THEN <<[by |-> "append", ready |-> r.ready, entries |-> <<>>,
                 ok |-> initOk]>>
         ELSE <<>>)
      \o (IF r2.ready
            THEN <<[by |-> "append", ready |-> r.ready,
                    entries |-> r2.entries, ok |-> writeOk]>>
            ELSE <<>>)

\* the report file after some writeYamlReport calls: what the last one that
\* succeeded wrote
RECURSIVE FileAfter(_, _)
FileAfter(doc, ws) ==
  IF ws = <<>> THEN doc
  ELSE FileAfter(IF Head(ws).ok THEN buildYamlReport(Head(ws).entries)
                                ELSE doc,
                 Tail(ws))

\* the steps of the reporter leave the command's other state alone
reporterFrame == <<cfgVars, allowlist, pc, idx, status, collectedEntries,
                   failures, fileVars, depVars, exitCode, cliError, aggErrors,
                   histVars>>

\* reporter.initialize()
Initialize ==
  /\ Len(calls) < MaxCalls
  /\ \E ok \in BOOLEAN :
       /\ reporter' = tryInitialize(reporter, ok)
       /\ writeLog' = Append(writeLog, [by |-> "initialize",
                                        ready |-> reporter.ready,
                                        entries |-> <<>>, ok |-> ok])
       /\ document' = FileAfter(document, <<[entries |-> <<>>, ok |-> ok]>>)
  /\ calls' = Append(calls, "initialize")
  /\ UNCHANGED <<queue, active, started>>
  /\ UNCHANGED <<reporterFrame, extractVars, clientVars, listingVars,
                 orderVars>>

\* reporter.append(entry)
AppendEntry ==
  /\ Len(calls) < MaxCalls
  /\ \E entry \in ReportEntries, initOk, writeOk \in BOOLEAN :
       /\ reporter' = ReporterAppend(reporter, entry, initOk, writeOk)
       /\ writeLog' = writeLog \o AppendWrites(reporter, entry, initOk, writeOk)
       /\ document' = FileAfter(document,
                                AppendWrites(reporter, entry, initOk, writeOk))
  /\ calls' = Append(calls, "append")
  /\ UNCHANGED <<queue, active, started>>
  /\ UNCHANGED <<reporterFrame, extractVars, clientVars, listingVars,
                 orderVars>>

\* a DryRunReporter that was just constructed, and the calls made on it one
\* after the other
InitReporter ==
  /\ PipelineIdle
  /\ ExtractIdle
  /\ ClientIdle
  /\ ListingIdle
  /\ ReporterIdle
  /\ OrderIdle

NextReporter ==
  \/ Initialize
  \/ AppendEntry

SpecReporter == InitReporter /\ [][NextReporter]_vars

\* --------------------------------------------- project filters of a bulk run
\* the page size adjustAllProjects asks the listing for
ListingPageSize == 100

\* the keys of ProjectListOptions that buildProjectQuery assigns
FilterNames == {"search", "membership", "owned", "archived", "simple",
                "minAccessLevel", "orderBy", "sort", "visibility",
                "pageLimit", "perPage"}

\* a value the command line can give each of them
FilterValue(name) ==
  CASE name = "search" -> "runner"
    [] name \in {"membership", "owned", "archived", "simple"} -> TRUE
    [] name = "minAccessLevel" -> 30
    [] name = "orderBy" -> "name"
    [] name = "sort" -> "asc"
    [] name = "visibility" -> "private"
    [] name = "pageLimit" -> 2
    [] name = "perPage" -> 50

\* buildProjectQuery: the query with the keys that were assigned, undefined
\* when none was (`hasValue ? query : undefined`)
ProjectQueries ==
  {Undefined} \cup {<<[name \in given |-> FilterValue(name)]>> :
                      given \in SUBSET FilterNames \ {{}}}

\* adjustTokenScopeForAllProjects(dryRun, monorepo, reportPath, logger): the
\* options it hands to adjustAllProjects are { dryRun, monorepo, reporter }
CallAdjuster ==
  /\ qpc = "cli"
  /\ \E d, m \in BOOLEAN :
       adjusterOptions' = <<[dryRun |-> d, monorepo |-> m,
                             reporter |-> Undefined]>>
  /\ qpc' = "adjuster"
  /\ UNCHANGED <<projectQuery, listingArgument>>
  /\ UNCHANGED <<pipelineVars, extractVars, clientVars, reporterVars,
                 orderVars>>

\* adjustAllProjects: `this.gitlabClient.getAllProjects(100, (current, total)
\* => ...)`, whatever its options are
CallListing ==
  /\ qpc = "adjuster"
  /\ listingArgument' = <<[perPage |-> ListingPageSize]>>
  /\ qpc' = "listing"
  /\ UNCHANGED <<projectQuery, adjusterOptions>>
  /\ UNCHANGED <<pipelineVars, extractVars, clientVars, reporterVars,
                 orderVars>>

\* the cli action of a bulk run after buildProjectQuery returned
InitListing ==
  /\ PipelineIdle
  /\ ExtractIdle
  /\ ClientIdle
  /\ ReporterIdle
  /\ OrderIdle
  /\ projectQuery \in ProjectQueries
  /\ adjusterOptions = Undefined
  /\ listingArgument = Undefined
  /\ qpc = "cli"

NextListing ==
  \/ CallAdjuster
  \/ CallListing

SpecListing == InitListing /\ [][NextListing]_vars

\* ------------------------------------- processAllDependencyFiles on its own
\* adjustProject of project 1 after findDependencyFiles answered, up to the
\* end of processAllDependencyFiles and what adjustProject does with it
InitFiles ==
  /\ mode = "single" /\ dryRun \in BOOLEAN /\ reportPath = FALSE
  /\ env = Credentials
  /\ projects = <<1>>
  /\ allowlist \in AllowlistInits
  /\ run = 1 /\ granted = {}
  /\ pc = "files" /\ idx = 1
  /\ status = startProject([p \in ProjectIds |-> "pending"], 1)
  /\ collectedEntries = <<>> /\ failures = <<>>
  /\ dependencyFiles \in 0..MaxFiles /\ fileIdx = 1
  /\ allDependencies = <<>> /\ fileErrors = <<>>
  /\ dependencies = <<>> /\ depIdx = 1 /\ dependencyProjectId = 0
  /\ depFailures = <<>> /\ recon = "idle" /\ depError = <<>>
  /\ reporter = NewReporter
  /\ exitCode = -1 /\ cliError = "none" /\ aggErrors = <<>>
  /\ attempted = <<1>> /\ threw = <<>> /\ notFound = {} /\ fetchFailed = {}
  /\ fileFailed = {} /\ depFailed = {}
  /\ depOutcome = <<>> /\ checkedList = 0 /\ writes = <<>>
  /\ pdCalls = 0
  /\ delivered = <<>> /\ found = <<>>
  /\ reconciled = {} /\ skipWarnings = 0
  /\ ExtractIdle
  /\ ClientIdle
  /\ ReporterIdle
  /\ OrderIdle
  /\ ListingIdle

NextFiles ==
  \/ ProcessDependencyFileOrExtract
  \/ FinishFiles

SpecFiles == InitFiles /\ [][NextFiles]_vars

\* --------------------------------- processDependencies as one whole call
\* what GitLab does with the requests for one dependency
RemoteBehaviours == {"ok", "getProjectId", "isProjectWhitelisted",
                     "allowCiJobTokenAccess"}

\* processDependencies: one turn of the loop for dependency dep, on the
\* allowlists al and the failures fs, when GitLab behaves as rb
DependencyTurn(al, fs, dep, sourceProjectId, rb) ==
  LET failed(cause) == [allowlist |-> al,
                        failures |-> PushFailure(fs, [dependency |-> dep,
                                                      cause |-> cause])]
      dependencyId == ProjectIdOf(dep)
  IN  IF rb[dep] = "getProjectId" THEN failed("getProjectId")
      ELSE IF rb[dep] = "isProjectWhitelisted"
        THEN failed("isProjectWhitelisted")
      ELSE IF NeedsWrite(IsProjectWhitelisted(al, sourceProjectId,
                                              dependencyId))
        THEN IF rb[dep] = "allowCiJobTokenAccess"
               THEN failed("allowCiJobTokenAccess")
               ELSE [allowlist |-> GrantAccess(al, dependencyId,
                                               sourceProjectId),
                     failures |-> fs]
      ELSE [allowlist |-> al, failures |-> fs]

\* processDependencies(gitlabClient, deps, sourceProjectId): the loop from
\* turn i on, then the throw when failures were pushed
RECURSIVE ProcessDependenciesFrom(_, _, _, _, _, _)
ProcessDependenciesFrom(i, al, fs, deps, sourceProjectId, rb) ==
  IF i > Len(deps)
    THEN [allowlist |-> al, failures |-> fs, threw |-> DepsThrow(fs)]
    ELSE LET turn == DependencyTurn(al, fs, deps[i], sourceProjectId, rb)
             next == IF turn.failures = fs
                       THEN i + 1
                       ELSE NextDepAfterFailure(i, Len(deps))
         IN  ProcessDependenciesFrom(next, turn.allowlist, turn.failures,
                                     deps, sourceProjectId, rb)

\* the orders in which the dependencies of a list can be processed
Orders(deps) ==
  {o \in [1..Len(deps) -> Paths] :
     \A path \in Paths :
       Cardinality({i \in 1..Len(deps) : o[i] = path})
         = Cardinality({i \in 1..Len(deps) : deps[i] = path})}

\* the steps of the comparison leave everything else alone
outsideOrder == <<pipelineVars, extractVars, clientVars, reporterVars,
                  listingVars>>

\* processDependencies of project 1 on the dependencies in one of the orders
ProcessInOrder(name, deps) ==
  /\ name \notin DOMAIN outcomes
  /\ outcomes' = [n \in DOMAIN outcomes \cup {name} |->
                    IF n = name
                      THEN ProcessDependenciesFrom(1, before, <<>>, deps, 1,
                                                   remote)
                      ELSE outcomes[n]]
  /\ UNCHANGED <<remote, before, submitted, processed>>
  /\ UNCHANGED outsideOrder

ProcessSubmitted == ProcessInOrder("submitted", submitted)

ProcessReordered == ProcessInOrder("processed", processed)

\* the dependencies of project 1, an order to process them in, the allowlists
\* and what GitLab does for each dependency
InitOrder ==
  /\ PipelineIdle
  /\ ExtractIdle
  /\ ClientIdle
  /\ ReporterIdle
  /\ ListingIdle
  /\ remote \in [Paths -> RemoteBehaviours]
  /\ before \in AllowlistInits
  /\ submitted \in SeqsUpTo(Paths, MaxDeps)
  /\ processed \in Orders(submitted)
  /\ outcomes = <<>>

NextOrder ==
  \/ ProcessSubmitted
  \/ ProcessReordered

SpecOrder == InitOrder /\ [][NextOrder]_vars

\* ------------------------------------------- DryRunReporter: the write queue
\* the steps of the reporter's queue leave everything else alone
outsideQueue == <<reporterFrame, extractVars, clientVars, listingVars,
                  orderVars, writeLog>>

\* variant: a task starts without waiting for the one before it
CanStartAtOnce(running) == TRUE

\* enqueue: `this.writeQueue.then(() => task())` starts the task when the
\* promise of the task before it has settled
CanStart(running) == running = {}

\* enqueue(task) of the call with the given number
Enqueue(q, call) == Append(q, [n |-> Len(calls) + 1, call |-> call])

\* the first writeYamlReport of a task: the truncating one of tryInitialize
\* for initialize and for an append that finds the reporter not ready, else
\* the full report
FirstWrite(task, r) ==
  IF task.call = "initialize" \/ ~r.ready
    THEN [n |-> task.n, call |-> task.call, write |-> "init",
          entries |-> <<>>]
    ELSE [n |-> task.n, call |-> task.call, write |-> "update",
          entries |-> r.entries]

\* initialize() is called; the caller does not wait for earlier calls
CallInitialize ==
  /\ Len(calls) < MaxCalls
  /\ calls' = Append(calls, "initialize")
  /\ queue' = Enqueue(queue, "initialize")
  /\ UNCHANGED <<reporter, document, active, started>>
  /\ UNCHANGED outsideQueue

\* append(entry) is called: the entry is pushed at once, the task is enqueued
CallAppend ==
  /\ Len(calls) < MaxCalls
  /\ \E entry \in ReportEntries :
       reporter' = [reporter EXCEPT !.entries = Append(@, entry)]
  /\ calls' = Append(calls, "append")
  /\ queue' = Enqueue(queue, "append")
  /\ UNCHANGED <<document, active, started>>
  /\ UNCHANGED outsideQueue

\* the task at the head of the queue starts and calls writeYamlReport
TaskStarts ==
  /\ queue # <<>>
  /\ CanStart(active)
  /\ LET w == FirstWrite(Head(queue), reporter)
     IN  /\ active' = active \cup {w}
         /\ started' = Append(started, [call |-> w.n, write |-> w.write,
                                        entries |-> w.entries])
  /\ queue' = Tail(queue)
  /\ UNCHANGED <<reporter, document, calls>>
  /\ UNCHANGED outsideQueue

\* the writeYamlReport call of a task resolves or rejects; an append whose
\* initialisation succeeded goes on to write the full report
WriteSettles ==
  /\ \E w \in active, ok \in BOOLEAN :
       IF w.write = "init"
         THEN /\ reporter' = tryInitialize(reporter, ok)
              /\ document' = IF ok THEN buildYamlReport(<<>>) ELSE document
              /\ IF w.call = "append" /\ ok
                   THEN /\ active' = (active \ {w})
                             \cup {[w EXCEPT !.write = "update",
                                             !.entries = reporter.entries]}
                        /\ started' = Append(started,
                                             [call |-> w.n,
                                              write |-> "update",
                                              entries |-> reporter.entries])
                   ELSE /\ active' = active \ {w}
                        /\ started' = started
         ELSE /\ reporter' = IF ok THEN [reporter EXCEPT !.file = w.entries]
                                   ELSE [reporter EXCEPT !.ready = FALSE]
              /\ document' = IF ok THEN buildYamlReport(w.entries)
                                   ELSE document
              /\ active' = active \ {w}
              /\ started' = started
  /\ UNCHANGED <<calls, queue>>
  /\ UNCHANGED outsideQueue

\* a DryRunReporter whose callers do not wait for their calls to finish
InitQueue ==
  /\ PipelineIdle
  /\ ExtractIdle
  /\ ClientIdle
  /\ ReporterIdle
  /\ OrderIdle
  /\ ListingIdle

NextQueue ==
  \/ CallInitialize
  \/ CallAppend
  \/ TaskStarts
  \/ WriteSettles

SpecQueue == InitQueue /\ [][NextQueue]_vars

\* ------------------------------------------------------------------ claims
\* the listed projects that have an id, in listing order
ListedIds == SelectSeq(projects, LAMBDA p : p # NoId)

\* the bulk run went through its loop and ended
BulkEnded ==
  /\ mode = "all" /\ pc = "done"
  /\ cliError \notin {"GitlabApiError", "ConfigurationError"}

\* the dependencies of this processDependencies call whose try was left by its
\* catch, each with the call that failed, in list order
FailedDependencies ==
  LET F[i \in 0..Len(depOutcome)] ==
        IF i = 0 THEN <<>>
        ELSE IF depOutcome[i] \in {"ok", "skip"} THEN F[i - 1]
        ELSE Append(F[i - 1], [dependency |-> dependencies[i],
                               cause |-> depOutcome[i]])
  IN  F[Len(depOutcome)]

\* C1: in bulk mode a project whose adjustment throws does not stop the loop:
\* every listed project with an id is attempted, and at the end exactly one
\* AdjustAllProjectsError is thrown iff some adjustment threw, its failures
\* being the projects whose adjustment threw, each once.
C1_BulkFailuresAggregated ==
  /\ Len(aggErrors) <= 1
  /\ BulkEnded =>
       /\ attempted = ListedIds
       /\ Len(aggErrors) = (IF threw # <<>> THEN 1 ELSE 0)
       /\ threw # <<>> =>
            /\ aggErrors[1] = threw
            /\ cliError = "AdjustAllProjectsError"
            /\ \A i, j \in 1..Len(threw) : i # j => threw[i] # threw[j]

\* the first of two listed projects threw, the second was attempted all the same
C1_Witness ==
  /\ BulkEnded
  /\ Len(projects) = 2 /\ attempted = projects
  /\ threw = <<projects[1]>>
  /\ aggErrors = <<threw>>
  /\ status[projects[2]] = "success"

\* C2: with dryRun set, processDependencies is never called, no allow-write
\* is issued and no allowlist changes.
C2_DryRunIssuesNoWrite ==
  dryRun =>
    /\ pdCalls = 0
    /\ writes = <<>>
    /\ pc \notin {"resolve", "check", "write"}
    /\ allowlist \in AllowlistInits

\* a dry run found dependencies for a project and completed it
C2_Witness ==
  /\ dryRun
  /\ attempted # <<>>
  /\ delivered # <<>> /\ status[lastProject] = "success"

C4_NoWriteWhenAlreadyAllowed ==
  \A i \in 1..Len(writes) :
    /\ ~writes[i].listed
    /\ <<writes[i].src, writes[i].path>> \notin granted

\* a reconciliation is repeated after a fully successful one, with the same
\* dependencies, and returns
C4_Witness ==
  /\ run > 1 /\ recon = "returned"
  /\ \A i \in 1..Len(dependencies) : <<lastProject, dependencies[i]>> \in granted
  /\ Len(dependencies) > 0
  /\ \A i \in 1..Len(depOutcome) : depOutcome[i] = "skip"

C6_FailedFileKeepsOtherDependencies ==
  (pc \notin {"details", "tree", "files"} /\ attempted # <<>>
     /\ lastProject \in fileFailed)
    => delivered = allDependencies

\* C7: a project whose metadata or repository tree answered 404 never makes
\* adjustProject throw and is never among the failures; after a 404 on the
\* tree the file list is empty, after a 404 on the metadata nothing is handed
\* on; the bulk loop attempts every listed project, and a run whose only
\* trouble is a 404 ends without error.
C7_NotFoundIsSoftSkip ==
  /\ \A p \in notFound :
       /\ p \notin SeqToSet(threw)
       /\ p \notin SeqToSet(failures)
       /\ \A i \in 1..Len(aggErrors) : p \notin SeqToSet(aggErrors[i])
       /\ p = lastProject =>
            /\ delivered = <<>> /\ recon = "idle"
            /\ pc = "files" => dependencyFiles = 0
  /\ BulkEnded => attempted = ListedIds
  /\ (pc = "done" /\ mode = "single" /\ notFound # {}) => exitCode = 0

\* the first listed project answered 404, the second was processed
C7_Witness ==
  /\ BulkEnded
  /\ Len(projects) = 2 /\ attempted = projects
  /\ projects[1] \in notFound
  /\ status[projects[2]] = "success"
  /\ exitCode = 0

\* C8: no step removes an entry from an allowlist, and every allow-write of a
\* reconciliation that succeeded is still in effect when the reconciliation
\* has ended, also with an aggregated error.
C8_AllowlistOnlyGrows ==
  /\ [](\A i \in 1..Len(writes) :
          writes[i].ok => writes[i].src \in allowlist[ProjectIdOf(writes[i].path)])
  /\ [][\A d \in AllIds : allowlist[d] \subseteq allowlist'[d]]_vars

\* a reconciliation ended with an error after one of its writes had succeeded
C8_Witness ==
  /\ recon = "threw"
  /\ \E i \in 1..Len(writes) :
       /\ writes[i].ok /\ writes[i].src = lastProject
       /\ lastProject \in allowlist[ProjectIdOf(writes[i].path)]

\* C9: when the run has ended, every project that was started has the status
\* success or failure.
C9_StartedProjectsEndTerminal ==
  pc = "done" =>
    \A p \in SeqToSet(attempted) : status[p] \in {"success", "failure"}

EntryIds(entries) == [i \in 1..Len(entries) |-> entries[i].projectId]

\* C11: in a dry-run bulk run the collected entries, which adjustAllProjects
\* returns when it returns, and the entries handed to the reporter are those of
\* the projects whose scan returned at least one dependency, in listing order,
\* each with the dependencies found; a project whose metadata or tree answered
\* 404 has no entry.
C11_DryRunEntriesAreProjectsWithDependencies ==
  (dryRun /\ mode = "all") =>
    /\ EntryIds(collectedEntries) = found
    /\ found = SelectSeq(ListedIds, LAMBDA p : p \in SeqToSet(found))
    /\ \A i \in 1..Len(collectedEntries) :
         collectedEntries[i].dependencies # <<>>
    /\ reportPath => reporter.entries = collectedEntries
    /\ \A p \in notFound : p \notin SeqToSet(EntryIds(collectedEntries))

\* of two listed projects the first had a manifest with a dependency, the
\* second had no dependency: the report holds the first only
C11_Witness ==
  /\ BulkEnded /\ dryRun /\ reportPath /\ exitCode = 0
  /\ Len(projects) = 2 /\ attempted = projects
  /\ EntryIds(collectedEntries) = <<projects[1]>>
  /\ reporter.file = collectedEntries
  /\ status[projects[2]] = "success"

\* the turns of the current processDependencies loop that have issued their
\* getProjectId request
LookupTurns ==
  IF recon # "running" THEN {}
  ELSE {i \in 1..Len(dependencies) :
          i < depIdx \/ (i = depIdx /\ pc \in {"check", "write"})}

\* the turns of the current processDependencies loop that have issued their
\* isProjectWhitelisted request
CheckTurns ==
  IF recon # "running" THEN {}
  ELSE {i \in 1..Len(dependencies) :
          \/ i <= Len(depOutcome) /\ depOutcome[i] # "getProjectId"
          \/ i = depIdx /\ pc = "write"}

\* getProjectId requests of this run for a path that the state still shows:
\* one per source project whose reconciliation of the path has ended without
\* failure, and those of the current loop
KnownLookups(path) ==
  Cardinality({p \in ProjectIds : <<p, path>> \in reconciled})
    + Cardinality({i \in LookupTurns : dependencies[i] = path})

\* C12: within one run at most one getProjectId request is issued per
\* dependency path, also when the path recurs across source projects.
C12_OneLookupPerDependencyPath ==
  \A path \in Paths : KnownLookups(path) <= 1

\* C13: within one run at most one isProjectWhitelisted request is issued per
\* pair of source project and dependency project.
C13_OneAllowlistCheckPerPair ==
  \A i, j \in CheckTurns :
    i # j => ProjectIdOf(dependencies[i]) # ProjectIdOf(dependencies[j])

\* C16: the dependencies a scan returns contain every path at most once.
C16_ScanResultHasNoDuplicates ==
  \A i, j \in 1..Len(delivered) : i # j => delivered[i] # delivered[j]

\* the dependency tasks of processDependencies that are in flight; each has
\* one GitLab request outstanding
DependencyTasksInFlight ==
  IF recon = "running" THEN InFlight(depIdx, Len(dependencies)) ELSE {}

C15_OneLookupPerProjectId ==
  \A i, j \in 1..Len(lookups) : i # j => lookups[i] # lookups[j]

\* C17: no two entries of the list an extractor builds are the same path or
\* normalise to the same path.
C17_ExtractorReturnsEachPathOnce ==
  \A i, j \in 1..Len(extracted) :
    i # j => normalizeProjectPath(extracted[i]) # normalizeProjectPath(extracted[j])

\* the group package endpoints among the URLs of the manifests
GroupEndpointUrls ==
  {GitUrl(<<"api", "v4", "groups", "240", "-", "packages">>),
   GitUrl(<<"API", "v4", "groups", "240", "-", "packages">>),
   GitUrl(<<"api", "v4", "groups", "241", "-", "packages">>)}

\* the group ids of the endpoints the call has met so far
GroupsMet ==
  {fileContent.items[visited[k]].url.path[4] :
     k \in {n \in 1..Len(visited) :
              fileContent.items[visited[n]].url \in GroupEndpointUrls}}

\* the warnings about the endpoint of a group
GroupWarnings(group) ==
  {k \in 1..Len(log) : log[k].event = "group" /\ log[k].ref[4] = group}

RECURSIVE Reached(_)
Reached(i) ==
  LET owner == fileContent.items[i].parent
  IN  owner = 0 \/ (fileContent.items[owner].url # NoUrl /\ Reached(owner))

\* the lookups of the call that failed
FailedLookups == {k \in 1..Len(log) : log[k].event = "lookup"}

\* C19: when getProject fails for a numeric reference, the extractor adds no
\* dependency in that turn and goes on with the next entry; the call never
\* throws on a parsed manifest, and when it returns it has processed every
\* entry its walk reaches, each once.
C19_LookupFailureSkipsOnlyThatReference ==
  /\ []((fileContent.form = "object" /\ FailedLookups # {}) =>
          /\ xpc # "threw"
          /\ xpc = "returned" =>
               /\ SeqToSet(visited) =
                    {i \in 1..Len(fileContent.items) : Reached(i)}
               /\ Len(visited) = Cardinality(SeqToSet(visited)))
  /\ [][(xpc = "lookup" /\ log' # log) =>
          /\ extracted' = extracted
          /\ xpc' = "walk"
          /\ visited' = Append(visited, current[pos])
          /\ pos' = pos + 1]_vars

\* the lookup of the first package failed, the package after it still gave a
\* dependency, and the call returned
C19_Witness ==
  /\ xpc = "returned" /\ processor = "composer.lock"
  /\ Len(visited) = 2 /\ lookups = <<"7">>
  /\ FailedLookups # {}
  /\ extracted = <<<<"g", "p">>>>

\* C20: extractDependencies never throws, and for a text that is not a
\* manifest it reports an error and returns the empty list.
C20_ExtractorsNeverThrow ==
  /\ xpc # "threw"
  /\ (xpc = "returned" /\ fileContent.form \in {"notJson", "null"}) =>
       /\ extracted = <<>>
       /\ \E k \in 1..Len(log) : log[k].level = "error"

\* the errors the retry rule names: status 429, a status of 500 or above, or
\* a connection-reset, timeout or DNS-failure code
RetryableAsStated(e) ==
  \/ e.statusCode = TooManyRequests
  \/ e.statusCode >= ServerErrorFloor
  \/ e.code \in {"ECONNABORTED", "ECONNRESET", "ETIMEDOUT", "ENOTFOUND",
                 "EAI_AGAIN"}

\* max(1, maxRetries + 1)
AttemptsAllowed == IF maxRetries + 1 > 1 THEN maxRetries + 1 ELSE 1

\* C21: executeRequest makes a further transport attempt for a request iff
\* the attempt before failed with a retryable error and fewer than
\* max(1, maxRetries + 1) attempts have been made; it never makes more than
\* maxRetries + 1 attempts, what it throws is a GitlabApiError, and every
\* request ends with a response or with that error.
C21_RetriesOnlyRetryableWithinLimit ==
  /\ [](/\ attempt <= maxRetries + 1
        /\ cpc = "delay" =>
             RetryableAsStated(apiError) /\ attempt < AttemptsAllowed
        /\ cpc = "threw" =>
             /\ apiError.name = "GitlabApiError"
             /\ ~(RetryableAsStated(apiError) /\ attempt < AttemptsAllowed))
  /\ [][(attempt' > attempt /\ requested' = requested)
          => (cpc = "delay" /\ attempt' = attempt + 1)]_vars
  /\ \A n \in 1..(MaxPages + 1) :
       (Len(requested) = n) ~> (Len(answers) = n \/ cpc = "threw")

\* a request was retried until its attempts were used up, and threw
C21_Witness ==
  /\ cpc = "threw"
  /\ maxRetries > 0 /\ attempt = maxRetries + 1
  /\ apiError.name = "GitlabApiError" /\ apiError.retryable

\* response i of the listing is an empty page or signals no next page
ListingEndsAt(i) ==
  \/ answers[i].data = <<>>
  \/ answers[i].header \in {"absent", "", "0"}

\* pageLimit pages have been fetched after response i
LimitReachedAt(i) == pageLimit # Undefined /\ i >= pageLimit[1]

\* the rows of the first k responses, in page order
RECURSIVE RowsOfPages(_)
RowsOfPages(k) ==
  IF k = 0 THEN <<>>
  ELSE RowsOfPages(k - 1)
         \o [j \in 1..Len(answers[k].data) |-> <<k, answers[k].data[j]>>]

\* C22: getAllProjects requests the pages 1, 2, 3, ... in order; it requests
\* a further page only when the page before was not empty, announced a next
\* page and fewer than pageLimit pages are fetched; when it returns, one of
\* the three has ended it and it returns the rows of all fetched pages in page
\* order.
C22_ListingStopsAtFirstEnd ==
  api = "getAllProjects" =>
    /\ requested = [i \in 1..Len(requested) |-> i]
    /\ Len(answers) \in {Len(requested) - 1, Len(requested)}
    /\ \A i \in 2..Len(requested) :
         ~ListingEndsAt(i - 1) /\ ~LimitReachedAt(i - 1)
    /\ cpc = "returned" =>
         /\ Len(answers) = Len(requested)
         /\ ListingEndsAt(Len(answers)) \/ LimitReachedAt(Len(answers))
         /\ collected = RowsOfPages(Len(answers))

\* two pages were fetched, the second the last one
C22_Witness ==
  /\ api = "getAllProjects" /\ cpc = "returned"
  /\ requested = <<1, 2>>
  /\ answers[1].header = "n"
  /\ collected = <<<<1, "project">>, <<2, "project">>>>

\* C23: findDependencyFiles requests a further page of the repository tree
\* only when the response before announced a next page (its x-next-page was
\* not absent, empty or '0'), and has returned once a response signalled the
\* last page.
C23_TreeStopsWithoutNextPage ==
  api = "findDependencyFiles" =>
    /\ \A i \in 2..Len(requested) :
         answers[i - 1].header \notin {"absent", "", "0"}
    /\ (Len(answers) = Len(requested) /\ Len(answers) > 0
        /\ answers[Len(answers)].header \in {"absent", "", "0"})
         => cpc = "returned"

\* C24: with GITLAB_URL or GITLAB_TOKEN not set the run ends with the
\* configuration error and exit status 1 and has done nothing else: no
\* project was listed or started, no request was answered, no allowlist
\* changed, in either mode.
C24_MissingCredentialsAbortFirst ==
  env # Credentials =>
    /\ pc \in {"cli", "done"}
    /\ attempted = <<>> /\ idx = 1
    /\ \A p \in ProjectIds : status[p] = "pending"
    /\ notFound = {} /\ pdCalls = 0 /\ writes = <<>>
    /\ allowlist \in AllowlistInits
    /\ pc = "done" => (cliError = "ConfigurationError" /\ exitCode = 1)

\* a bulk run without GITLAB_TOKEN has ended
C24_Witness ==
  /\ mode = "all" /\ env = {"GITLAB_URL"}
  /\ Len(projects) > 0
  /\ pc = "done" /\ cliError = "ConfigurationError" /\ exitCode = 1

\* C25: a failed initialisation or update of the dry-run report rejects
\* nothing: the cli never catches an error of the report, no project with a
\* report entry is failed or among the failures, the bulk loop attempts every
\* listed project, and a run without any other trouble exits with status 0.
C25_ReportFailureNotPropagated ==
  (dryRun /\ reportPath) =>
    /\ cliError # "ReportError"
    /\ \A p \in SeqToSet(EntryIds(reporter.entries)) :
         /\ status[p] = "success"
         /\ p \notin SeqToSet(failures)
    /\ failures = threw
    /\ BulkEnded => attempted = ListedIds
    /\ (BulkEnded /\ threw = <<>>) => exitCode = 0

\* the report could be neither initialised nor updated, and both listed
\* projects were completed with their entries collected
C25_Witness ==
  /\ BulkEnded /\ dryRun /\ reportPath
  /\ Len(projects) = 2 /\ attempted = projects
  /\ ~reporter.ready /\ reporter.file = <<>>
  /\ EntryIds(reporter.entries) = projects
  /\ EntryIds(collectedEntries) = projects
  /\ status[projects[1]] = "success" /\ status[projects[2]] = "success"
  /\ exitCode = 0

\* C26: append on a DryRunReporter that is not ready (never initialised, or
\* suspended after a failed update) only buffers the entry: no writeYamlReport
\* call is made by an append that found the reporter not ready.
C26_NotReadyAppendWritesNothing ==
  \A i \in 1..Len(writeLog) :
    writeLog[i].by = "append" => writeLog[i].ready

\* the entries of the last report write that succeeded
RECURSIVE LastWritten(_)
LastWritten(ws) ==
  IF ws = <<>> THEN <<>>
  ELSE IF ws[Len(ws)].ok THEN <<ws[Len(ws)].entries>>
  ELSE LastWritten(SubSeq(ws, 1, Len(ws) - 1))

\* the lines of a document that open a block: `"name":`
BlockHeads(doc) == SelectSeq(doc, LAMBDA l : l[Len(l)] = ":")

\* the number of lines of the blocks of the first k entries
RECURSIVE LinesBefore(_, _)
LinesBefore(kept, k) ==
  IF k = 0 THEN 0
  ELSE LinesBefore(kept, k - 1) + 1 + Len(kept[k].dependencies)

\* C28: the report that buildYamlReport produced for the written entries has
\* one block for each entry with at least one dependency, in input order (the
\* quoted name, then one quoted item for each dependency in order), has
\* nothing for an entry without dependencies, and is exactly the line "{}"
\* when no entry has a dependency.
C28_ReportHasABlockPerEntryWithDependencies ==
  LastWritten(writeLog) # <<>> =>
    LET es == LastWritten(writeLog)[1]
        kept == SelectSeq(es, LAMBDA e : e.dependencies # <<>>)
    IN  IF \A i \in 1..Len(es) : es[i].dependencies = <<>>
          THEN document = <<<<"{}">>>>
          ELSE /\ Len(document) = LinesBefore(kept, Len(kept))
               /\ Len(BlockHeads(document)) = Len(kept)
               /\ \A k \in 1..Len(kept) :
                    LET at == LinesBefore(kept, k - 1) + 1
                    IN  /\ document[at]
                             = <<"\"", kept[k].projectName, "\"", ":">>
                        /\ \A d \in 1..Len(kept[k].dependencies) :
                             document[at + d]
                               = <<"  - ", "\"", kept[k].dependencies[d], "\"">>

\* the report of a project with one dependency followed by a project with none
C28_Witness ==
  /\ LastWritten(writeLog)
       = << <<[projectName |-> "g/a", projectId |-> 1,
               dependencies |-> <<"g/b">>],
              [projectName |-> "g/c", projectId |-> 2,
               dependencies |-> <<>>]>> >>
  /\ document = << <<"\"", "g/a", "\"", ":">>, <<"  - ", "\"", "g/b", "\"">> >>

\* C27: in bulk mode the project-listing filters supplied by the caller reach
\* the getAllProjects call unchanged, and no filter is added when none is
\* supplied.
C27_FiltersReachListingUnchanged ==
  qpc = "listing" => listingArgument = projectQuery

\* the number of turns the loop over the listed projects has begun
TurnsBegun == IF pc \in {"cli", "next", "done"} THEN idx - 1 ELSE idx

\* C29: in bulk mode the projects attempted so far are exactly the listed
\* projects with an id among the turns the loop has begun, each once and in
\* listing order; a project is attempted only when no other is being worked
\* on; every project without an id was skipped with one warning, after which
\* the loop went to the next listed project; a run that went through the loop
\* left no listed project out.
C29_EachListedIdAttemptedOnceInOrder ==
  /\ [](mode = "all" =>
          LET begun == SubSeq(projects, 1, TurnsBegun)
          IN  /\ attempted = SelectSeq(begun, LAMBDA p : p # NoId)
              /\ skipWarnings = Len(SelectSeq(begun, LAMBDA p : p = NoId))
              /\ \A i, j \in 1..Len(attempted) :
                   i # j => attempted[i] # attempted[j]
              /\ BulkEnded => TurnsBegun = Len(projects))
  /\ [][mode = "all" =>
          /\ attempted' # attempted =>
               /\ pc = "next"
               /\ attempted' = Append(attempted, projects[idx])
          /\ skipWarnings' # skipWarnings =>
               /\ pc' = "next"
               /\ idx' = idx + 1
               /\ attempted' = attempted]_vars

\* a listing whose first project has no id: it was skipped with a warning and
\* the project after it was attempted
C29_Witness ==
  /\ BulkEnded
  /\ Len(projects) = 2 /\ projects[1] = NoId /\ projects[2] # NoId
  /\ attempted = <<projects[2]>>
  /\ skipWarnings = 1

C31_OtherFetchErrorsRethrown ==
  /\ [](\A p \in fetchFailed :
          /\ p \in SeqToSet(threw)
          /\ p \notin notFound
          /\ p = lastProject => (delivered = <<>> /\ recon = "idle")
          /\ mode = "single" =>
               (pc = "done" /\ cliError = "GitlabApiError" /\ exitCode = 1)
          /\ mode = "all" =>
               /\ p \in SeqToSet(failures)
               /\ status[p] = "failure"
               /\ BulkEnded =>
                    /\ Len(aggErrors) = 1
                    /\ p \in SeqToSet(aggErrors[1])
                    /\ exitCode = 1)
  /\ [][(pc = "details" /\ pc' \notin {"details", "tree"} /\ threw' = threw)
          => cur \in notFound']_vars

\* a bulk run whose first project failed on a request with another error than
\* 404 and whose second project was adjusted
C31_Witness ==
  /\ BulkEnded
  /\ Len(projects) = 2
  /\ fetchFailed = {projects[1]}
  /\ failures = <<projects[1]>>
  /\ projects[2] # NoId /\ status[projects[2]] = "success"
  /\ aggErrors = <<failures>>

\* C32: within one run at most one allow-write is issued for any pair of
\* source project and dependency project, also when the dependency occurs
\* several times in the dependency list or in several manifest files.
C32_OneWritePerPair ==
  \A i, j \in 1..Len(writes) :
    i # j => ~(/\ writes[i].src = writes[j].src
               /\ ProjectIdOf(writes[i].path) = ProjectIdOf(writes[j].path))

\* the dependencies a processDependencies call reported as failed
ReportedFailed(outcome) ==
  {outcome.failures[i].dependency : i \in 1..Len(outcome.failures)}

\* C33: the same dependencies processed in two orders against the same
\* allowlists and the same behaviour of GitLab for each dependency end with
\* the same allowlists and the same set of failed dependencies, and both
\* calls throw or both return.
C33_OutcomeIndependentOfOrder ==
  DOMAIN outcomes = {"submitted", "processed"} =>
    /\ outcomes["submitted"].allowlist = outcomes["processed"].allowlist
    /\ ReportedFailed(outcomes["submitted"])
         = ReportedFailed(outcomes["processed"])
    /\ outcomes["submitted"].threw = outcomes["processed"].threw

\* a dependency that fails and one that is granted, processed in both orders
C33_Witness ==
  /\ DOMAIN outcomes = {"submitted", "processed"}
  /\ submitted = <<"g/lib", "g/p1", "g/lib">>
  /\ processed = <<"g/p1", "g/lib", "g/lib">>
  /\ remote["g/p1"] = "isProjectWhitelisted" /\ remote["g/lib"] = "ok"
  /\ before = [d \in AllIds |-> {d}]
  /\ outcomes["submitted"].allowlist[LibId] = {LibId, 1}
  /\ ReportedFailed(outcomes["processed"]) = {"g/p1"}

\* the blocks of a report document: none for the empty map
Blocks(doc) == IF doc = <<<<"{}">>>> THEN <<>> ELSE doc

\* C35: the blocks that are in the report file before an append are still in
\* it, in the same place, after the append, whether its writes succeed or
\* fail.
C35_PersistedEntriesStay ==
  [][calls' = Append(calls, "append") =>
       /\ Len(Blocks(document)) <= Len(Blocks(document'))
       /\ SubSeq(Blocks(document'), 1, Len(Blocks(document)))
            = Blocks(document)]_vars

\* C34: at most one report write of a DryRunReporter is in flight at any
\* time; the writes are begun in the order of the calls they belong to; a
\* write in flight belongs to a call made before every call still waiting,
\* and the calls wait in the order they were made.
C34_WritesThroughOneOrderedQueue ==
  /\ Cardinality(active) <= 1
  /\ \A i, j \in 1..Len(started) : i < j => started[i].call <= started[j].call
  /\ \A w \in active : \A k \in 1..Len(queue) : w.n < queue[k].n
  /\ \A i, j \in 1..Len(queue) : i < j => queue[i].n < queue[j].n

\* append was called twice while the write of initialize was in flight
C34_Witness ==
  /\ calls = <<"initialize", "append", "append">>
  /\ \E w \in active : w.n = 1 /\ w.write = "init"
  /\ Len(queue) = 2
  /\ Len(started) = 1

\* the projects named by the AdjustAllProjectsError of the run
NamedByBulkError == UNION {SeqToSet(aggErrors[i]) : i \in 1..Len(aggErrors)}

\* C36: when a bulk run has ended, the projects with the logger status
\* failure are exactly the projects listed in the failures of the
\* AdjustAllProjectsError it threw.
C36_FailureStatusIffListed ==
  BulkEnded =>
    \A p \in ProjectIds : (status[p] = "failure") <=> (p \in NamedByBulkError)

\* the nodes of the lockfile whose resolved URL names a project of the host
\* by its number
RegistryNodes ==
  {i \in 1..Len(fileContent.items) :
     extractProjectId(fileContent.items[i].url) # ""}

\* C37: when NpmProcessor returns it has visited every node of the
\* dependencies tree of the lockfile, whatever its depth, and it has
\* requested the project of every node whose resolved URL matches
\* <host>/api/v4/projects/<digits>/packages.
C37_NpmVisitsEveryNode ==
  (processor = "package-lock.json" /\ xpc = "returned") =>
    /\ SeqToSet(visited) = 1..Len(fileContent.items)
    /\ \A i \in RegistryNodes :
         extractProjectId(fileContent.items[i].url) \in SeqToSet(lookups)

\* the entries of repositories the call has processed whose URL is on the
\* GitLab host, and those whose URL is not
OnHost == {k \in SeqToSet(visited) : fileContent.items[k].url.host = Host}
OffHost == SeqToSet(visited) \ OnHost

\* C39: every dependency ComposerProcessor returns comes from a repository
\* entry whose URL host is the GitLab host and is the path of that URL,
\* without scheme and host; and every entry whose URL host differs has a
\* skip diagnostic.
C39_ComposerReturnsBarePaths ==
  processor = "composer.json" =>
    /\ \A i \in 1..Len(extracted) :
         \E k \in OnHost : extracted[i] = fileContent.items[k].url.path
    /\ Cardinality({k \in 1..Len(log) : log[k].event = "skip"})
         = Cardinality(OffHost)

\* line i of the go.mod lies inside a require ( ... ) block
InRequireBlock(i) ==
  \E j \in 1..(i - 1) :
    /\ fileContent.items[j].line = "require ("
    /\ \A k \in (j + 1)..(i - 1) : fileContent.items[k].line # ")"

\* the module paths the first n lines of the go.mod give: those of the
\* lines inside a require block whose first token names the host
RECURSIVE RequiredOfHost(_)
RequiredOfHost(n) ==
  IF n = 0 THEN <<>>
  ELSE LET line == fileContent.items[n]
       IN  IF /\ line.line = "entry" /\ InRequireBlock(n)
              /\ line.url.host = Host
             THEN Append(RequiredOfHost(n - 1), line.url.path)
             ELSE RequiredOfHost(n - 1)

C38_OnlyManifestNamesReturned ==
  (api = "findDependencyFiles" /\ cpc = "returned") =>
    \A i \in 1..Len(TreeResult(collected)) :
      TreeResult(collected)[i][2] \in targetFiles

====
